---- MODULE Spec2Model ----
(***************************************************************************)
(* Verification model of the AWS OmniConsole extension: the persisted      *)
(* account document (shared/storage.ts), the popup account store and form, *)
(* the credential encryption (shared/encryption.ts) and the background     *)
(* message handler.                                                        *)
(*                                                                         *)
(* Text is a sequence of one-character strings, a byte buffer a sequence   *)
(* of numbers 0..255, an optional field (undefined in the source) the      *)
(* empty sequence and <<v>> when it is present.                            *)
(***************************************************************************)
EXTENDS Integers, Sequences, FiniteSets, TLC

VARIABLES
  local,          \* chrome.storage.local[STORAGE_KEY]: <<>> or <<document>>
  popupAccounts,  \* useAccountStore().accounts, the popup's in-memory copy
  editingAccount, \* useAccountStore().editingAccount: <<>> or <<profile>>
  showForm,       \* useAccountStore().showForm
  isLoading,      \* useAccountStore().isLoading
  nextUuid,       \* number of ids crypto.randomUUID() has handed out
  now,            \* Date.now()
  lastOp,         \* the last operation, its inputs and what it returned
  popupTasks,     \* the popup's handlers in flight, between their awaits
  bgTask,         \* the background's handler in flight, between its awaits
  begun,          \* number of handlers begun that call a storage function
  blob,           \* the text handed to decrypt (SpecDecrypt)
  passphrase,     \* the passphrase handed to decrypt (SpecDecrypt)
  outcome,        \* what decrypt did with it (SpecDecrypt)
  encryptCalls,   \* the encrypt calls made so far (SpecCrypto)
  activeSessions, \* the background's Map from tab id to ActiveSession
  tabs,           \* the browser's tabs: whether open, and the URL shown
  detections,     \* ACCOUNT_DETECTED handlers awaiting getAccounts
  session,        \* chrome.storage.session.pendingSignIn: <<>> or <<record>>
  pages,          \* checkPendingSignIn of each tab's page, between awaits
  opens           \* the OPEN_CONSOLE and quick-switch handlers begun

vars == <<local, popupAccounts, editingAccount, showForm, isLoading,
          nextUuid, now,
          lastOp, popupTasks, bgTask, begun, blob, passphrase, outcome,
          encryptCalls, activeSessions, tabs, detections, session, pages,
          opens>>

browserVars == <<activeSessions, tabs, detections, session, pages, opens>>

MaxTabs == 2

NoTab == [open |-> FALSE, closed |-> FALSE, url |-> <<>>]

NoPage == [pc |-> "none", pending |-> <<>>, filled |-> <<>>]

\* No tab has been opened and no handler of the background is in flight
BrowserIdle ==
  /\ activeSessions = <<>>
  /\ tabs = [t \in 1..MaxTabs |-> NoTab]
  /\ detections = {}
  /\ session = <<>>
  /\ pages = [t \in 1..MaxTabs |-> NoPage]
  /\ opens = <<>>

----------------------------------------------------------------------------
(* Bounds *)

MaxAccounts == 2   \* profiles the persisted list may hold
MaxUuid == 2       \* ids crypto.randomUUID() may hand out
MaxTime == 1       \* values Date.now() may take
MaxSeed == 1       \* distinct outcomes of one getRandomValues draw
MaxInFlight == 2   \* handlers of the popup in flight at a time
MaxCalls == 2      \* handlers begun in a run of the split handlers

----------------------------------------------------------------------------
(* Text *)

None == <<>>
Some(v) == <<v>>
IsSome(o) == Len(o) > 0

Whitespace == {" ", "\t", "\n", "\r"}
Digits == {"0", "1", "2", "3", "4", "5", "6", "7", "8", "9"}
UpperCase == <<"A", "B", "C", "D", "E", "F", "G", "H", "I", "J", "K", "L", "M",
               "N", "O", "P", "Q", "R", "S", "T", "U", "V", "W", "X", "Y", "Z">>
LowerCase == <<"a", "b", "c", "d", "e", "f", "g", "h", "i", "j", "k", "l", "m",
               "n", "o", "p", "q", "r", "s", "t", "u", "v", "w", "x", "y", "z">>

TrimStart(s) ==
  LET kept == {i \in 1..Len(s) : s[i] \notin Whitespace}
  IN IF kept = {} THEN <<>>
     ELSE SubSeq(s, CHOOSE i \in kept : \A j \in kept : i <= j, Len(s))

TrimEnd(s) ==
  LET kept == {i \in 1..Len(s) : s[i] \notin Whitespace}
  IN IF kept = {} THEN <<>>
     ELSE SubSeq(s, 1, CHOOSE i \in kept : \A j \in kept : j <= i)

\* String.prototype.trim
Trim(s) == TrimEnd(TrimStart(s))

\* String.prototype.toLowerCase on the letters of the model's alphabet
LowerChar(c) ==
  IF \E i \in 1..26 : UpperCase[i] = c
  THEN LowerCase[CHOOSE i \in 1..26 : UpperCase[i] = c] ELSE c

ToLowerCase(s) == [i \in 1..Len(s) |-> LowerChar(s[i])]

\* String.prototype.includes for a one-character needle
IncludesChar(s, c) == \E i \in 1..Len(s) : s[i] = c

\* String.prototype.split with a one-character separator: the pieces
\* between consecutive separators
Split(s, sep) ==
  LET at == {i \in 1..Len(s) : s[i] = sep}
      n == Cardinality(at)
      \* position of the k-th separator, 0 before the first piece and
      \* Len(s) + 1 after the last
      Pos(k) == IF k = 0 THEN 0
                ELSE IF k > n THEN Len(s) + 1
                ELSE CHOOSE i \in at : Cardinality({j \in at : j < i}) = k - 1
  IN [k \in 1..(n + 1) |-> SubSeq(s, Pos(k - 1) + 1, Pos(k) - 1)]

\* Array.prototype.join with a one-character separator
RECURSIVE Join(_, _)
Join(parts, sep) ==
  IF parts = <<>> THEN <<>>
  ELSE IF Len(parts) = 1 THEN parts[1]
  ELSE parts[1] \o <<sep>> \o Join(Tail(parts), sep)

\* Array.prototype.filter(Boolean) on a list of texts: drops the empty ones
FilterNonEmpty(parts) == SelectSeq(parts, LAMBDA p : p # <<>>)

RECURSIVE SumSeq(_)
SumSeq(s) ==
  IF s = <<>> THEN 0
  ELSE IF Len(s) = 1 THEN s[1]
  ELSE LET half == Len(s) \div 2
       IN SumSeq(SubSeq(s, 1, half)) + SumSeq(SubSeq(s, half + 1, Len(s)))

Repeat(v, n) == [i \in 1..n |-> v]

----------------------------------------------------------------------------
(* Encoding: shared/encryption.ts *)

\* The printable ASCII characters in code order: AsciiChars[k] has code 31 + k
AsciiChars ==
  <<" ", "!", "\"", "#", "$", "%", "&", "'", "(", ")", "*", "+",
    ",", "-", ".", "/", "0", "1", "2", "3", "4", "5", "6", "7",
    "8", "9", ":", ";", "<", "=", ">", "?", "@", "A", "B", "C",
    "D", "E", "F", "G", "H", "I", "J", "K", "L", "M", "N", "O",
    "P", "Q", "R", "S", "T", "U", "V", "W", "X", "Y", "Z", "[",
    "\\", "]", "^", "_", "backtick", "a", "b", "c", "d", "e", "f", "g",
    "h", "i", "j", "k", "l", "m", "n", "o", "p", "q", "r", "s",
    "t", "u", "v", "w", "x", "y", "z", "{", "|", "}", "~">>

CharCode(c) == 31 + (CHOOSE k \in 1..Len(AsciiChars) : AsciiChars[k] = c)

\* new TextEncoder().encode on ASCII text: one byte per character
TextEncode(text) == [i \in 1..Len(text) |-> CharCode(text[i])]

\* new TextDecoder().decode on bytes; the model only ever encodes ASCII
TextDecode(bytes) ==
  [i \in 1..Len(bytes) |->
     IF bytes[i] \in 32..126 THEN AsciiChars[bytes[i] - 31] ELSE "?"]

Base64Alphabet ==
  <<"A", "B", "C", "D", "E", "F", "G", "H", "I", "J", "K", "L", "M",
    "N", "O", "P", "Q", "R", "S", "T", "U", "V", "W", "X", "Y", "Z",
    "a", "b", "c", "d", "e", "f", "g", "h", "i", "j", "k", "l", "m",
    "n", "o", "p", "q", "r", "s", "t", "u", "v", "w", "x", "y", "z",
    "0", "1", "2", "3", "4", "5", "6", "7", "8", "9", "+", "/">>

Sextet(n) == Base64Alphabet[n + 1]

SextetValue(c) == (CHOOSE k \in 1..64 : Base64Alphabet[k] = c) - 1

\* btoa on a binary string, given as the codes of its characters: three
\* bytes become four characters, a short last group is padded with '='
btoa(b) ==
  LET n == Len(b)
      Byte(i) == IF i <= n THEN b[i] ELSE 0
      Char(k) ==
        LET q == (k - 1) \div 4
            r == (k - 1) % 4
            b1 == Byte(3 * q + 1)
            b2 == Byte(3 * q + 2)
            b3 == Byte(3 * q + 3)
        IN IF r = 0 THEN Sextet(b1 \div 4)
           ELSE IF r = 1 THEN Sextet((b1 % 4) * 16 + b2 \div 16)
           ELSE IF r = 2
           THEN IF 3 * q + 2 > n THEN "="
                ELSE Sextet((b2 % 16) * 4 + b3 \div 64)
           ELSE IF 3 * q + 3 > n THEN "=" ELSE Sextet(b3 % 64)
  IN [k \in 1..(4 * ((n + 2) \div 3)) |-> Char(k)]

StripWhitespace(s) == SelectSeq(s, LAMBDA c : c \notin Whitespace)

StripPadding(s) ==
  IF Len(s) % 4 = 0 /\ Len(s) > 0 /\ s[Len(s)] = "="
  THEN IF s[Len(s) - 1] = "=" THEN SubSeq(s, 1, Len(s) - 2)
       ELSE SubSeq(s, 1, Len(s) - 1)
  ELSE s

\* The bytes of a run of 6-bit values; the bits left over at the end are
\* dropped
DecodeSextets(v) ==
  LET m == Len(v)
      Val(i) == IF i <= m THEN v[i] ELSE 0
      Byte(j) ==
        LET q == (j - 1) \div 3
            r == (j - 1) % 3
        IN IF r = 0 THEN Val(4 * q + 1) * 4 + Val(4 * q + 2) \div 16
           ELSE IF r = 1
           THEN (Val(4 * q + 2) % 16) * 16 + Val(4 * q + 3) \div 4
           ELSE (Val(4 * q + 3) % 4) * 64 + Val(4 * q + 4)
  IN [j \in 1..((m * 6) \div 8) |-> Byte(j)]

\* atob: the forgiving base64 decode; ok = FALSE is InvalidCharacterError
atob(text) ==
  LET s == StripPadding(StripWhitespace(text))
      valid == /\ Len(s) % 4 # 1
               /\ \A i \in 1..Len(s) : \E k \in 1..64 : Base64Alphabet[k] = s[i]
  IN IF valid
     THEN [ok |-> TRUE,
           bytes |-> DecodeSextets([i \in 1..Len(s) |-> SextetValue(s[i])])]
     ELSE [ok |-> FALSE, bytes |-> <<>>]

\* An encoder that builds the binary string from 7-bit characters
arrayBufferToBase64_SevenBit(buffer) ==
  btoa([i \in 1..Len(buffer) |-> buffer[i] % 128])

arrayBufferToBase64(buffer) == btoa(buffer)

base64ToArrayBuffer(base64) == atob(base64)

----------------------------------------------------------------------------
(* Key derivation and AES-GCM: shared/encryption.ts *)

SALT_LENGTH == 16
IV_LENGTH == 12
TAG_LENGTH == 16

\* crypto.subtle.deriveKey (PBKDF2): a key is determined by the passphrase
\* bytes and the salt, and different inputs give different keys
deriveKey(password, salt) == [pw |-> TextEncode(password), salt |-> salt]

KeyMix(key) == SumSeq(key.pw) * 7 + Len(key.pw) * 31 + SumSeq(key.salt) * 3

\* The authentication tag over key, iv and plaintext
GcmTag(key, iv, data) ==
  [j \in 1..TAG_LENGTH |->
     (KeyMix(key) * 13 + SumSeq(iv) * 19 + SumSeq(data) * 23
        + Len(data) * 29 + j) % 256]

\* crypto.subtle.encrypt with AES-GCM: ciphertext, then the 16-byte tag
SubtleEncrypt(key, iv, data) ==
  [i \in 1..Len(data) |->
     (data[i] + KeyMix(key) + SumSeq(iv) * 5 + i * 11) % 256]
  \o GcmTag(key, iv, data)

\* crypto.subtle.decrypt with AES-GCM; ok = FALSE is OperationError
SubtleDecrypt(key, iv, data) ==
  IF Len(iv) = 0 \/ Len(data) < TAG_LENGTH
  THEN [ok |-> FALSE, bytes |-> <<>>]
  ELSE LET n == Len(data) - TAG_LENGTH
           plain == [i \in 1..n |->
                       (data[i] + 256 * (1 + i + KeyMix(key) + SumSeq(iv))
                          - (KeyMix(key) + SumSeq(iv) * 5 + i * 11)) % 256]
       IN IF SubSeq(data, n + 1, Len(data)) = GcmTag(key, iv, plain)
          THEN [ok |-> TRUE, bytes |-> plain]
          ELSE [ok |-> FALSE, bytes |-> <<>>]

\* Uint8Array.prototype.slice(from, to), zero-based, end exclusive
Slice(bytes, from, to) ==
  LET lo == IF from > Len(bytes) THEN Len(bytes) ELSE from
      hi == IF to > Len(bytes) THEN Len(bytes) ELSE to
  IN IF hi <= lo THEN <<>> ELSE SubSeq(bytes, lo + 1, hi)

\* An encrypt that draws salt and iv once and keeps them for later calls
encrypt_CachedNonce(plaintext, password, salt, iv) ==
  LET cachedSalt == [i \in 1..SALT_LENGTH |-> (37 + i) % 256]
      cachedIv == [i \in 1..IV_LENGTH |-> (37 + i) % 256]
      data == TextEncode(plaintext)
      key == deriveKey(password, cachedSalt)
      encrypted == SubtleEncrypt(key, cachedIv, data)
  IN arrayBufferToBase64(cachedSalt \o cachedIv \o encrypted)

\* encrypt, with the two draws it takes from getRandomValues
encrypt(plaintext, password, salt, iv) ==
  LET data == TextEncode(plaintext)
      key == deriveKey(password, salt)
      encrypted == SubtleEncrypt(key, iv, data)
  IN arrayBufferToBase64(salt \o iv \o encrypted)

\* A decrypt that takes the iv from the start of the buffer
decrypt_IvFromStart(encryptedData, password) ==
  LET decoded == base64ToArrayBuffer(encryptedData)
      combined == decoded.bytes
      salt == Slice(combined, 0, 16)
      iv == Slice(combined, 0, 12)
      data == Slice(combined, 28, Len(combined))
      key == deriveKey(password, salt)
      decrypted == SubtleDecrypt(key, iv, data)
  IN IF ~decoded.ok
     THEN [ok |-> FALSE, value |-> <<>>, error |-> "InvalidCharacterError",
           calls |-> <<"atob">>]
     ELSE IF ~decrypted.ok
     THEN [ok |-> FALSE, value |-> <<>>, error |-> "OperationError",
           calls |-> <<"atob", "deriveKey", "subtle.decrypt">>]
     ELSE [ok |-> TRUE, value |-> TextDecode(decrypted.bytes), error |-> "",
           calls |-> <<"atob", "deriveKey", "subtle.decrypt", "decode">>]

\* decrypt: the result, or the error it rejects with, and the platform
\* calls it made on the way
decrypt(encryptedData, password) ==
  LET decoded == base64ToArrayBuffer(encryptedData)
      combined == decoded.bytes
      salt == Slice(combined, 0, 16)
      iv == Slice(combined, 16, 28)
      data == Slice(combined, 28, Len(combined))
      key == deriveKey(password, salt)
      decrypted == SubtleDecrypt(key, iv, data)
  IN IF ~decoded.ok
     THEN [ok |-> FALSE, value |-> <<>>, error |-> "InvalidCharacterError",
           calls |-> <<"atob">>]
     ELSE IF ~decrypted.ok
     THEN [ok |-> FALSE, value |-> <<>>, error |-> "OperationError",
           calls |-> <<"atob", "deriveKey", "subtle.decrypt">>]
     ELSE [ok |-> TRUE, value |-> TextDecode(decrypted.bytes), error |-> "",
           calls |-> <<"atob", "deriveKey", "subtle.decrypt", "decode">>]

LOCAL_KEY ==
  <<"a", "w", "s", "-", "s", "w", "i", "t", "c", "h", "e", "r", "-",
    "l", "o", "c", "a", "l", "-", "k", "e", "y">>

----------------------------------------------------------------------------
(* Data model: shared/types.ts, shared/constants.ts *)

IAM == <<"i", "a", "m">>
SSO == <<"s", "s", "o">>
ASSUME_ROLE == <<"a", "s", "s", "u", "m", "e", "-", "r", "o", "l", "e">>
AuthTypes == {IAM, SSO, ASSUME_ROLE}

US_EAST_1 == <<"u", "s", "-", "e", "a", "s", "t", "-", "1">>
US_WEST_2 == <<"u", "s", "-", "w", "e", "s", "t", "-", "2">>

\* ACCOUNT_COLORS[0]
DEFAULT_COLOR == <<"#", "e", "f", "4", "4", "4", "4">>

DEFAULT_SETTINGS ==
  [showConsoleBanner |-> TRUE, bannerPosition |-> "top",
   sessionTimeoutWarning |-> 5, autoLockTimeout |-> 30, theme |-> "system"]

\* The document getStorage falls back to when nothing is stored
EmptyDocument ==
  [accounts |-> <<>>, encryptionEnabled |-> FALSE,
   masterPasswordHash |-> None, settings |-> DEFAULT_SETTINGS]

----------------------------------------------------------------------------
(* Persistence: shared/storage.ts *)

getStorage(stored) == IF stored = <<>> THEN EmptyDocument ELSE stored[1]

setStorage(data) == Some(data)

getAccounts(stored) == getStorage(stored).accounts

\* Array.prototype.findIndex on ids, one-based; 0 when nothing matches
FindIndexById(accounts, id) ==
  IF \E i \in 1..Len(accounts) : accounts[i].id = id
  THEN CHOOSE i \in 1..Len(accounts) :
         /\ accounts[i].id = id
         /\ \A j \in 1..(i - 1) : accounts[j].id # id
  ELSE 0

\* getAccount: <<>> when no profile has the id
getAccount(stored, id) ==
  LET accounts == getAccounts(stored)
      index == FindIndexById(accounts, id)
  IN IF index > 0 THEN Some(accounts[index]) ELSE None

\* Array.prototype.filter
RECURSIVE FilterOutId(_, _)
FilterOutId(accounts, id) ==
  IF accounts = <<>> THEN <<>>
  ELSE IF Head(accounts).id # id
  THEN <<Head(accounts)>> \o FilterOutId(Tail(accounts), id)
  ELSE FilterOutId(Tail(accounts), id)

\* A saveAccount that takes the old entry out and pushes the new one
saveAccount_MoveToEnd(data, account) ==
  [data EXCEPT !.accounts = Append(FilterOutId(@, account.id), account)]

\* The document saveAccount writes, given the document it read
saveAccount(data, account) ==
  LET index == FindIndexById(data.accounts, account.id)
  IN IF index > 0
     THEN [data EXCEPT !.accounts[index] = account]
     ELSE [data EXCEPT !.accounts = Append(@, account)]

\* A deleteAccount that splices at findIndex: with no match the index is -1
\* and splice(-1, 1) takes the last profile away
deleteAccount_Splice(data, id) ==
  IF FindIndexById(data.accounts, id) > 0
  THEN [data EXCEPT !.accounts = FilterOutId(@, id)]
  ELSE [data EXCEPT !.accounts = SubSeq(@, 1, Len(@) - 1)]

\* The document deleteAccount writes, given the document it read
deleteAccount(data, id) ==
  [data EXCEPT !.accounts = FilterOutId(@, id)]

\* An updateLastUsed that stamps every stored profile
updateLastUsed_TouchAll(data, id, time) ==
  IF FindIndexById(data.accounts, id) > 0
  THEN [writes |-> TRUE,
        data |-> [data EXCEPT
                    !.accounts = [i \in 1..Len(@) |->
                                    [@[i] EXCEPT !.lastUsed = Some(time)]]]]
  ELSE [writes |-> FALSE, data |-> data]

\* updateLastUsed: whether it writes, and the document it then writes
updateLastUsed(data, id, time) ==
  LET index == FindIndexById(data.accounts, id)
  IN IF index > 0
     THEN [writes |-> TRUE,
           data |-> [data EXCEPT !.accounts[index].lastUsed = Some(time)]]
     ELSE [writes |-> FALSE, data |-> data]

\* An id generator that hands out the same id every time
Uuid_Constant(n) == 1

\* crypto.randomUUID(): the n-th id handed out
Uuid(n) == n

\* crypto.getRandomValues(new Uint8Array(length)) for one outcome of the draw
getRandomValues(length, seed) == [i \in 1..length |-> (seed * 37 + i) % 256]

RandomSeeds == 1..MaxSeed

----------------------------------------------------------------------------
(* Popup: popup/store.ts, popup/components/AccountForm.tsx *)

\* /^\d{12}$/
IsTwelveDigits(text) ==
  /\ Len(text) = 12
  /\ \A i \in 1..12 : text[i] \in Digits

\* validate: TRUE when the form has no error
validate(formData) ==
  /\ Trim(formData.name) # <<>>
  /\ IsTwelveDigits(formData.accountId)
  /\ ~(formData.authType = SSO /\ formData.ssoStartUrl = <<>>)
  /\ ~(formData.authType = ASSUME_ROLE /\ formData.roleArn = <<>>)

\* formData.tags.split(',').map(trim).filter(Boolean)
FormTags(formData) ==
  LET parts == Split(formData.tags, ",")
  IN FilterNonEmpty([i \in 1..Len(parts) |-> Trim(parts[i])])

\* handleSubmit building the credentials whatever the auth type
FormCredentials_AnyAuthType(formData, editing, salt, iv) ==
  IF formData.iamUsername # <<>>
  THEN Some([username |-> formData.iamUsername,
             encryptedPassword |->
               IF formData.iamPassword # <<>>
               THEN encrypt(formData.iamPassword, LOCAL_KEY, salt, iv)
               ELSE <<>>])
  ELSE None

\* handleSubmit: the iamCredentials of the submitted profile
FormCredentials(formData, editing, salt, iv) ==
  IF formData.authType = IAM /\ formData.iamUsername # <<>>
  THEN IF formData.iamPassword # <<>>
       THEN Some([username |-> formData.iamUsername,
                  encryptedPassword |->
                    encrypt(formData.iamPassword, LOCAL_KEY, salt, iv)])
       ELSE IF /\ IsSome(editing)
               /\ IsSome(editing[1].iamCredentials)
               /\ editing[1].iamCredentials[1].encryptedPassword # <<>>
       THEN Some([username |-> formData.iamUsername,
                  encryptedPassword |->
                    editing[1].iamCredentials[1].encryptedPassword])
       ELSE Some([username |-> formData.iamUsername,
                  encryptedPassword |-> <<>>])
  ELSE None

\* handleSubmit: the profile handed to updateAccount (editing) or built by
\* createAccount from accountData, a new id and the current time
FormAccount(formData, editing, salt, iv, id, time) ==
  LET tags == FormTags(formData)
  IN [id |-> IF IsSome(editing) THEN editing[1].id ELSE id,
      name |-> Trim(formData.name),
      accountId |-> formData.accountId,
      defaultRegion |-> formData.defaultRegion,
      authType |-> formData.authType,
      clientName |-> IF Trim(formData.clientName) # <<>>
                     THEN Some(Trim(formData.clientName)) ELSE None,
      tags |-> IF Len(tags) > 0 THEN Some(tags) ELSE None,
      color |-> Some(formData.color),
      isFavorite |-> IF IsSome(editing) THEN editing[1].isFavorite ELSE None,
      createdAt |-> IF IsSome(editing) THEN editing[1].createdAt ELSE time,
      lastUsed |-> IF IsSome(editing) THEN editing[1].lastUsed ELSE None,
      iamCredentials |-> FormCredentials(formData, editing, salt, iv),
      ssoConfig |->
        IF formData.authType = SSO
        THEN Some([startUrl |-> formData.ssoStartUrl,
                   region |-> None,
                   accountId |-> formData.accountId,
                   roleName |-> formData.ssoRoleName])
        ELSE None,
      assumeRoleConfig |->
        IF formData.authType = ASSUME_ROLE
        THEN Some([roleArn |-> formData.roleArn,
                   sourceProfile |-> None,
                   externalId |-> IF formData.externalId # <<>>
                                  THEN Some(formData.externalId) ELSE None])
        ELSE None]

\* toggleFavorite: { ...account, isFavorite: !account.isFavorite }
Toggled(account) ==
  [account EXCEPT !.isFavorite =
     Some(~(IsSome(account.isFavorite) /\ account.isFavorite[1]))]

----------------------------------------------------------------------------
(* CSV: shared/storage.ts *)

RECURSIVE ParseCSVFrom(_, _, _, _, _)
ParseCSVFrom(line, i, result, current, inQuotes) ==
  IF i > Len(line) THEN Append(result, Trim(current))
  ELSE LET char == line[i]
       IN IF inQuotes
          THEN IF char = "\"" /\ i + 1 <= Len(line) /\ line[i + 1] = "\""
               THEN ParseCSVFrom(line, i + 2, result,
                                 Append(current, "\""), TRUE)
               ELSE IF char = "\""
               THEN ParseCSVFrom(line, i + 1, result, current, FALSE)
               ELSE ParseCSVFrom(line, i + 1, result,
                                 Append(current, char), TRUE)
          ELSE IF char = "\""
               THEN ParseCSVFrom(line, i + 1, result, current, TRUE)
               ELSE IF char = ","
               THEN ParseCSVFrom(line, i + 1,
                                 Append(result, Trim(current)), <<>>, FALSE)
               ELSE ParseCSVFrom(line, i + 1, result,
                                 Append(current, char), FALSE)

parseCSVLine(line) == ParseCSVFrom(line, 1, <<>>, <<>>, FALSE)

\* value.replace(/"/g, '""')
RECURSIVE DoubleQuotes(_)
DoubleQuotes(value) ==
  IF value = <<>> THEN <<>>
  ELSE IF Len(value) = 1
  THEN IF value[1] = "\"" THEN <<"\"", "\"">> ELSE value
  ELSE LET half == Len(value) \div 2
       IN DoubleQuotes(SubSeq(value, 1, half))
          \o DoubleQuotes(SubSeq(value, half + 1, Len(value)))

\* escapeCSV wrapping the value in quotes without doubling its quotes
escapeCSV_NoDoubling(value) ==
  IF IncludesChar(value, ",") \/ IncludesChar(value, "\"")
       \/ IncludesChar(value, "\n")
  THEN <<"\"">> \o value \o <<"\"">>
  ELSE value

escapeCSV(value) ==
  IF IncludesChar(value, ",") \/ IncludesChar(value, "\"")
       \/ IncludesChar(value, "\n")
  THEN <<"\"">> \o DoubleQuotes(value) \o <<"\"">>
  ELSE value

CSV_PLACEHOLDER ==
  <<"[", "E", "N", "C", "R", "Y", "P", "T", "E", "D", " ", "-", " ", "R",
    "e", "-", "e", "n", "t", "e", "r", " ", "i", "n", " ", "a", "p", "p",
    "]">>

CsvHeaders(includeCredentials) ==
  <<<<"n", "a", "m", "e">>, <<"a", "c", "c", "o", "u", "n", "t", "I", "d">>, <<"a", "u", "t", "h", "T", "y", "p", "e">>,
    <<"d", "e", "f", "a", "u", "l", "t", "R", "e", "g", "i", "o", "n">>, <<"c", "o", "l", "o", "r">>, <<"t", "a", "g", "s">>,
    <<"u", "s", "e", "r", "n", "a", "m", "e">>>>
  \o (IF includeCredentials THEN <<<<"p", "a", "s", "s", "w", "o", "r", "d">>>> ELSE <<>>)

\* exportAccountsToCSV: the row of one profile, before it is joined
CsvRow(account, includeCredentials) ==
  <<escapeCSV(account.name),
    account.accountId,
    account.authType,
    account.defaultRegion,
    IF IsSome(account.color) THEN account.color[1] ELSE <<>>,
    Join(IF IsSome(account.tags) THEN account.tags[1] ELSE <<>>, ";"),
    IF IsSome(account.iamCredentials)
    THEN account.iamCredentials[1].username ELSE <<>>>>
  \o (IF includeCredentials THEN <<CSV_PLACEHOLDER>> ELSE <<>>)

\* exportAccountsToCSV: the text it returns for the stored profiles
exportAccountsToCSV(accounts, includeCredentials) ==
  Join(<<Join(CsvHeaders(includeCredentials), ",")>>
       \o [i \in 1..Len(accounts) |->
             Join(CsvRow(accounts[i], includeCredentials), ",")],
       "\n")

\* row[key] for the row object built from the headers: the value under the
\* last header of that name, '' when the line is too short, and the empty
\* text (for undefined, which every use treats alike) when there is none
RowValue(headers, values, key) ==
  LET hits == {idx \in 1..Len(headers) : headers[idx] = key}
  IN IF hits = {} THEN <<>>
     ELSE LET idx == CHOOSE i \in hits : \A j \in hits : j <= i
          IN IF idx <= Len(values) THEN values[idx] ELSE <<>>

\* a || b || ... over texts: the first non-empty one, else the last
RECURSIVE FirstTruthy(_)
FirstTruthy(options) ==
  IF Len(options) = 1 \/ Head(options) # <<>> THEN Head(options)
  ELSE FirstTruthy(Tail(options))

\* importAccountsFromCSV: the profile built from one data line
CsvAccount(headers, values, id, time) ==
  LET accountId == FirstTruthy(<<RowValue(headers, values, <<"a", "c", "c", "o", "u", "n", "t", "i", "d">>),
                                 RowValue(headers, values, <<"a", "c", "c", "o", "u", "n", "t", "_", "i", "d">>),
                                 RowValue(headers, values, <<"a", "w", "s", " ", "a", "c", "c", "o", "u", "n", "t", " ", "i", "d">>),
                                 <<>>>>)
      name == FirstTruthy(<<RowValue(headers, values, <<"n", "a", "m", "e">>),
                            RowValue(headers, values, <<"a", "l", "i", "a", "s">>),
                            RowValue(headers, values, <<"a", "c", "c", "o", "u", "n", "t", "n", "a", "m", "e">>),
                            RowValue(headers, values, <<"a", "c", "c", "o", "u", "n", "t", " ", "n", "a", "m", "e">>),
                            accountId>>)
      username == FirstTruthy(<<RowValue(headers, values, <<"u", "s", "e", "r", "n", "a", "m", "e">>),
                                RowValue(headers, values, <<"i", "a", "m", "_", "u", "s", "e", "r", "n", "a", "m", "e">>),
                                RowValue(headers, values, <<"i", "a", "m", " ", "u", "s", "e", "r", "n", "a", "m", "e">>),
                                <<>>>>)
      region == FirstTruthy(<<RowValue(headers, values, <<"d", "e", "f", "a", "u", "l", "t", "r", "e", "g", "i", "o", "n">>),
                              RowValue(headers, values, <<"r", "e", "g", "i", "o", "n">>),
                              RowValue(headers, values, <<"d", "e", "f", "a", "u", "l", "t", "_", "r", "e", "g", "i", "o", "n">>),
                              US_EAST_1>>)
      color == RowValue(headers, values, <<"c", "o", "l", "o", "r">>)
      tagText == RowValue(headers, values, <<"t", "a", "g", "s">>)
      tags == IF tagText # <<>> THEN FilterNonEmpty(Split(tagText, ";"))
              ELSE <<>>
  IN [id |-> id,
      name |-> IF name # <<>> THEN name
               ELSE <<"A", "c", "c", "o", "u", "n", "t", " ">> \o accountId,
      accountId |-> accountId,
      defaultRegion |-> region,
      authType |-> IAM,
      clientName |-> None,
      tags |-> IF Len(tags) > 0 THEN Some(tags) ELSE None,
      color |-> IF color # <<>> THEN Some(color) ELSE None,
      isFavorite |-> None,
      createdAt |-> time,
      lastUsed |-> None,
      iamCredentials |-> IF username # <<>>
                         THEN Some([username |-> username,
                                    encryptedPassword |-> <<>>])
                         ELSE None,
      ssoConfig |-> None,
      assumeRoleConfig |-> None]

\* data.accounts.includes(accountId): no profile equals a text
HasAccountId_Includes(accounts, accountId) ==
  \E i \in 1..Len(accounts) : <<accounts[i]>> = accountId

\* data.accounts.some((a) => a.accountId === accountId)
HasAccountId(accounts, accountId) ==
  \E i \in 1..Len(accounts) : accounts[i].accountId = accountId

\* importAccountsFromCSV: the loop over the data lines, from line i on;
\* st holds the working list, the two counters and the ids handed out
RECURSIVE CsvLoop(_, _, _, _, _)
CsvLoop(lines, headers, i, st, time) ==
  IF i > Len(lines) THEN st
  ELSE LET values == parseCSVLine(lines[i])
           candidate == CsvAccount(headers, values, Uuid(st.uuids + 1), time)
       IN IF candidate.accountId = <<>>
             \/ HasAccountId(st.accounts, candidate.accountId)
          THEN CsvLoop(lines, headers, i + 1,
                       [st EXCEPT !.skipped = @ + 1], time)
          ELSE CsvLoop(lines, headers, i + 1,
                       [st EXCEPT !.accounts = Append(@, candidate),
                                  !.imported = @ + 1,
                                  !.uuids = @ + 1], time)

\* importAccountsFromCSV reading the header names as they are written
importAccountsFromCSV_CaseSensitive(data, csvContent, uuids, time) ==
  LET lines == Split(Trim(csvContent), "\n")
      first == parseCSVLine(lines[1])
      headers == [h \in 1..Len(first) |-> Trim(first[h])]
      st == CsvLoop(lines, headers, 2,
                    [accounts |-> data.accounts, imported |-> 0,
                     skipped |-> 0, uuids |-> uuids], time)
  IN IF Len(lines) < 2
     THEN [writes |-> FALSE, data |-> data, imported |-> 0, skipped |-> 0,
           uuids |-> uuids]
     ELSE [writes |-> TRUE, data |-> [data EXCEPT !.accounts = st.accounts],
           imported |-> st.imported, skipped |-> st.skipped,
           uuids |-> st.uuids]

\* importAccountsFromCSV putting the new profiles in front (unshift for push)
importAccountsFromCSV_Unshift(data, csvContent, uuids, time) ==
  LET lines == Split(Trim(csvContent), "\n")
      first == parseCSVLine(lines[1])
      headers == [h \in 1..Len(first) |-> Trim(ToLowerCase(first[h]))]
      st == CsvLoop(lines, headers, 2,
                    [accounts |-> data.accounts, imported |-> 0,
                     skipped |-> 0, uuids |-> uuids], time)
      added == SubSeq(st.accounts, Len(data.accounts) + 1, Len(st.accounts))
  IN IF Len(lines) < 2
     THEN [writes |-> FALSE, data |-> data, imported |-> 0, skipped |-> 0,
           uuids |-> uuids]
     ELSE [writes |-> TRUE,
           data |-> [data EXCEPT !.accounts = added \o data.accounts],
           imported |-> st.imported, skipped |-> st.skipped,
           uuids |-> st.uuids]

\* importAccountsFromCSV: what it returns, whether it writes, and the
\* document it then writes, given the document it read
importAccountsFromCSV(data, csvContent, uuids, time) ==
  LET lines == Split(Trim(csvContent), "\n")
      first == parseCSVLine(lines[1])
      headers == [h \in 1..Len(first) |-> Trim(ToLowerCase(first[h]))]
      st == CsvLoop(lines, headers, 2,
                    [accounts |-> data.accounts, imported |-> 0,
                     skipped |-> 0, uuids |-> uuids], time)
  IN IF Len(lines) < 2
     THEN [writes |-> FALSE, data |-> data, imported |-> 0, skipped |-> 0,
           uuids |-> uuids]
     ELSE [writes |-> TRUE, data |-> [data EXCEPT !.accounts = st.accounts],
           imported |-> st.imported, skipped |-> st.skipped,
           uuids |-> st.uuids]

----------------------------------------------------------------------------
(* JSON export and import: shared/storage.ts *)

REDACTED == <<"[", "R", "E", "D", "A", "C", "T", "E", "D", "]">>

\* exportAccounts without the redaction
Sanitized_Verbatim(account) == account

\* exportAccounts: the sanitized copy of one profile
Sanitized(account) ==
  [account EXCEPT !.iamCredentials =
     IF IsSome(@)
     THEN Some([username |-> @[1].username, encryptedPassword |-> REDACTED])
     ELSE None]

JsonOptional(key, option) ==
  IF IsSome(option) THEN <<<<key, option[1]>>>> ELSE <<>>

JsonCredentials(c) ==
  <<<<"username", c.username>>, <<"encryptedPassword", c.encryptedPassword>>>>

JsonSsoConfig(c) ==
  <<<<"startUrl", c.startUrl>>>> \o JsonOptional("region", c.region)
  \o <<<<"accountId", c.accountId>>, <<"roleName", c.roleName>>>>

JsonRoleConfig(c) ==
  <<<<"roleArn", c.roleArn>>>> \o JsonOptional("sourceProfile", c.sourceProfile)
  \o JsonOptional("externalId", c.externalId)

\* JSON.stringify of one profile: its keys with their values, a key whose
\* value is undefined left out
JsonObject(a) ==
  <<<<"id", a.id>>, <<"name", a.name>>, <<"accountId", a.accountId>>,
    <<"defaultRegion", a.defaultRegion>>, <<"authType", a.authType>>>>
  \o JsonOptional("clientName", a.clientName)
  \o JsonOptional("tags", a.tags)
  \o JsonOptional("color", a.color)
  \o JsonOptional("isFavorite", a.isFavorite)
  \o <<<<"createdAt", a.createdAt>>>>
  \o JsonOptional("lastUsed", a.lastUsed)
  \o (IF IsSome(a.iamCredentials)
      THEN <<<<"iamCredentials", JsonCredentials(a.iamCredentials[1])>>>>
      ELSE <<>>)
  \o (IF IsSome(a.ssoConfig)
      THEN <<<<"ssoConfig", JsonSsoConfig(a.ssoConfig[1])>>>> ELSE <<>>)
  \o (IF IsSome(a.assumeRoleConfig)
      THEN <<<<"assumeRoleConfig", JsonRoleConfig(a.assumeRoleConfig[1])>>>>
      ELSE <<>>)

\* exportAccounts: the JSON array it returns for the stored profiles
exportAccounts(accounts) ==
  [i \in 1..Len(accounts) |-> JsonObject(Sanitized(accounts[i]))]

\* The loop of importAccounts keeping what the file says of the credentials
RECURSIVE JsonLoop_KeepsCredentials(_, _, _)
JsonLoop_KeepsCredentials(imported, st, time) ==
  IF imported = <<>> THEN st
  ELSE IF Head(imported) = <<>> THEN [st EXCEPT !.threw = TRUE]
  ELSE LET account == Head(imported)[1]
       IN IF \E i \in 1..Len(st.accounts) :
               st.accounts[i].accountId = account.accountId
          THEN JsonLoop_KeepsCredentials(Tail(imported), st, time)
          ELSE JsonLoop_KeepsCredentials(
                 Tail(imported),
                 [st EXCEPT
                    !.accounts =
                      Append(@, [account EXCEPT
                                   !.id = Uuid(st.uuids + 1),
                                   !.createdAt = time]),
                    !.count = @ + 1,
                    !.uuids = @ + 1],
                 time)

\* importAccounts: the loop over the parsed array (an element is <<>> for
\* null and <<object>> otherwise); st holds the working list, the count,
\* the ids handed out and whether the loop threw
RECURSIVE JsonLoop(_, _, _)
JsonLoop(imported, st, time) ==
  IF imported = <<>> THEN st
  ELSE IF Head(imported) = <<>> THEN [st EXCEPT !.threw = TRUE]
  ELSE LET account == Head(imported)[1]
       IN IF HasAccountId(st.accounts, account.accountId)
          THEN JsonLoop(Tail(imported), st, time)
          ELSE JsonLoop(Tail(imported),
                        [st EXCEPT
                           !.accounts =
                             Append(@, [account EXCEPT
                                          !.id = Uuid(st.uuids + 1),
                                          !.iamCredentials = None,
                                          !.createdAt = time]),
                           !.count = @ + 1,
                           !.uuids = @ + 1],
                        time)

\* importAccounts testing a candidate against the file's own entries only
importAccounts_FileOnly(data, json, uuids, time) ==
  LET st == JsonLoop(json.value,
                     [accounts |-> <<>>, count |-> 0,
                      uuids |-> uuids, threw |-> FALSE], time)
  IN IF ~json.parses \/ st.threw
     THEN [threw |-> TRUE, data |-> data, count |-> 0,
           uuids |-> IF json.parses THEN st.uuids ELSE uuids]
     ELSE [threw |-> FALSE,
           data |-> [data EXCEPT !.accounts = @ \o st.accounts],
           count |-> st.count, uuids |-> st.uuids]

\* importAccounts: whether it throws, what it returns, and the document it
\* writes when it does not throw, given the document it read
importAccounts(data, json, uuids, time) ==
  LET st == JsonLoop(json.value,
                     [accounts |-> data.accounts, count |-> 0,
                      uuids |-> uuids, threw |-> FALSE], time)
  IN IF ~json.parses \/ st.threw
     THEN [threw |-> TRUE, data |-> data, count |-> 0,
           uuids |-> IF json.parses THEN st.uuids ELSE uuids]
     ELSE [threw |-> FALSE, data |-> [data EXCEPT !.accounts = st.accounts],
           count |-> st.count, uuids |-> st.uuids]

----------------------------------------------------------------------------
(* AWS config import: shared/storage.ts *)

StartsWith(text, prefix) ==
  /\ Len(text) >= Len(prefix)
  /\ SubSeq(text, 1, Len(prefix)) = prefix

\* a value the source tests with if (x), x ? .. : .. or x || ..
Truthy(option) == IsSome(option) /\ option[1] # <<>>

\* trimmed.match(/^\[(?:profile\s+)?(.+)\]$/): <<>> or <<the captured name>>
ProfileMatch(trimmed) ==
  IF Len(trimmed) >= 3 /\ trimmed[1] = "[" /\ trimmed[Len(trimmed)] = "]"
  THEN LET inner == SubSeq(trimmed, 2, Len(trimmed) - 1)
           keyword == <<"p", "r", "o", "f", "i", "l", "e">>
           after == IF StartsWith(inner, keyword)
                    THEN SubSeq(inner, Len(keyword) + 1, Len(inner))
                    ELSE <<>>
           rest == TrimStart(after)
           spaces == Len(after) - Len(rest)
           name == IF StartsWith(inner, keyword) /\ spaces >= 1 /\ rest # <<>>
                   THEN rest
                   ELSE IF StartsWith(inner, keyword) /\ spaces >= 2
                   THEN <<inner[Len(inner)]>>
                   ELSE inner
       IN IF IncludesChar(name, "\r") THEN None ELSE Some(name)
  ELSE None

\* A key = value match that lower-cases the key but keeps its hyphens
KeyValueMatch_KeepsHyphens(trimmed) ==
  LET eqs == {i \in 1..Len(trimmed) : trimmed[i] = "="}
  IN IF eqs = {} THEN None
     ELSE LET first == CHOOSE i \in eqs : \A j \in eqs : i <= j
              rawKey == Trim(ToLowerCase(SubSeq(trimmed, 1, first - 1)))
              rawValue == SubSeq(trimmed, first + 1, Len(trimmed))
          IN IF first = 1 \/ IncludesChar(rawValue, "\r") THEN None
             ELSE Some([key |-> rawKey, value |-> Trim(rawValue)])

\* trimmed.match(/^([^=]+)=(.*)$/): <<>> or <<[key, value]>>, the key
\* trimmed, lower-cased and with '-' replaced by '_', the value trimmed
KeyValueMatch(trimmed) ==
  LET eqs == {i \in 1..Len(trimmed) : trimmed[i] = "="}
  IN IF eqs = {} THEN None
     ELSE LET first == CHOOSE i \in eqs : \A j \in eqs : i <= j
              rawKey == Trim(ToLowerCase(SubSeq(trimmed, 1, first - 1)))
              rawValue == SubSeq(trimmed, first + 1, Len(trimmed))
          IN IF first = 1 \/ IncludesChar(rawValue, "\r") THEN None
             ELSE Some([key |-> [i \in 1..Len(rawKey) |->
                                   IF rawKey[i] = "-" THEN "_" ELSE rawKey[i]],
                        value |-> Trim(rawValue)])

ARN_PREFIX == <<"a", "r", "n", ":", "a", "w", "s", ":", "i", "a", "m", ":", ":">>

\* value.match(/arn:aws:iam::(\d{12}):/): <<>> or <<the twelve digits>>
ArnMatch(value) ==
  LET n == Len(ARN_PREFIX)
      hits == {p \in 1..Len(value) :
                 /\ p + n + 12 <= Len(value)
                 /\ SubSeq(value, p, p + n - 1) = ARN_PREFIX
                 /\ \A d \in 0..11 : value[p + n + d] \in Digits
                 /\ value[p + n + 12] = ":"}
  IN IF hits = {} THEN None
     ELSE LET p == CHOOSE q \in hits : \A r \in hits : q <= r
          IN Some(SubSeq(value, p + n, p + n + 11))

NewParsedProfile(name) ==
  [name |-> name, accountId |-> <<>>, region |-> None, roleArn |-> None,
   sourceProfile |-> None, externalId |-> None, ssoStartUrl |-> None,
   ssoRegion |-> None, ssoRoleName |-> None]

\* parseAWSConfig: the switch over the key of a key = value line
SetProfileField(profile, key, value) ==
  IF key = <<"r", "e", "g", "i", "o", "n">> THEN [profile EXCEPT !.region = Some(value)]
  ELSE IF key = <<"r", "o", "l", "e", "_", "a", "r", "n">>
  THEN [profile EXCEPT !.roleArn = Some(value),
                       !.accountId = IF IsSome(ArnMatch(value))
                                     THEN ArnMatch(value)[1] ELSE @]
  ELSE IF key = <<"s", "o", "u", "r", "c", "e", "_", "p", "r", "o", "f", "i", "l", "e">>
  THEN [profile EXCEPT !.sourceProfile = Some(value)]
  ELSE IF key = <<"e", "x", "t", "e", "r", "n", "a", "l", "_", "i", "d">>
  THEN [profile EXCEPT !.externalId = Some(value)]
  ELSE IF key = <<"s", "s", "o", "_", "s", "t", "a", "r", "t", "_", "u", "r", "l">>
  THEN [profile EXCEPT !.ssoStartUrl = Some(value)]
  ELSE IF key = <<"s", "s", "o", "_", "r", "e", "g", "i", "o", "n">>
  THEN [profile EXCEPT !.ssoRegion = Some(value)]
  ELSE IF key = <<"s", "s", "o", "_", "a", "c", "c", "o", "u", "n", "t", "_", "i", "d">>
  THEN [profile EXCEPT !.accountId = value]
  ELSE IF key = <<"s", "s", "o", "_", "r", "o", "l", "e", "_", "n", "a", "m", "e">>
  THEN [profile EXCEPT !.ssoRoleName = Some(value)]
  ELSE profile

\* parseAWSConfig: the loop over the lines; st holds the profiles pushed so
\* far and the open section (<<>> for null)
RECURSIVE ConfigLoop(_, _)
ConfigLoop(lines, st) ==
  IF lines = <<>> THEN st
  ELSE LET trimmed == Trim(Head(lines))
           header == ProfileMatch(trimmed)
           kv == KeyValueMatch(trimmed)
       IN IF trimmed = <<>> \/ trimmed[1] = "#"
          THEN ConfigLoop(Tail(lines), st)
          ELSE IF IsSome(header)
          THEN ConfigLoop(Tail(lines),
                          [profiles |-> st.profiles \o st.current,
                           current |-> Some(NewParsedProfile(header[1]))])
          ELSE IF IsSome(st.current) /\ IsSome(kv)
          THEN ConfigLoop(Tail(lines),
                          [st EXCEPT !.current =
                             Some(SetProfileField(@[1], kv[1].key,
                                                  kv[1].value))])
          ELSE ConfigLoop(Tail(lines), st)

\* A parseAWSConfig that returns every section it pushed
WithAccountId_KeepAll(profiles) == profiles

RECURSIVE WithAccountId(_)
WithAccountId(profiles) ==
  IF profiles = <<>> THEN <<>>
  ELSE IF Head(profiles).accountId # <<>>
  THEN <<Head(profiles)>> \o WithAccountId(Tail(profiles))
  ELSE WithAccountId(Tail(profiles))

parseAWSConfig(content) ==
  LET st == ConfigLoop(Split(content, "\n"),
                       [profiles |-> <<>>, current |-> None])
  IN WithAccountId(st.profiles \o st.current)

OrElse(option, default) == IF Truthy(option) THEN option[1] ELSE default

\* importFromAWSConfig: the profile built from one parsed section
ConfigAccount(profile, id, time) ==
  [id |-> id,
   name |-> profile.name,
   accountId |-> profile.accountId,
   defaultRegion |-> OrElse(profile.region, US_EAST_1),
   authType |-> IF Truthy(profile.ssoStartUrl) THEN SSO
                ELSE IF Truthy(profile.roleArn) THEN ASSUME_ROLE ELSE IAM,
   clientName |-> None,
   tags |-> None,
   color |-> None,
   isFavorite |-> None,
   createdAt |-> time,
   lastUsed |-> None,
   iamCredentials |-> None,
   ssoConfig |->
     IF Truthy(profile.ssoStartUrl)
     THEN Some([startUrl |-> profile.ssoStartUrl[1],
                region |-> Some(OrElse(profile.ssoRegion,
                                       OrElse(profile.region, US_EAST_1))),
                accountId |-> profile.accountId,
                roleName |-> OrElse(profile.ssoRoleName, <<>>)])
     ELSE None,
   assumeRoleConfig |->
     IF Truthy(profile.roleArn)
     THEN Some([roleArn |-> profile.roleArn[1],
                sourceProfile |-> profile.sourceProfile,
                externalId |-> profile.externalId])
     ELSE None]

\* An import loop that passes over a section whose accountId is stored
\* without counting it
RECURSIVE ConfigImportLoop_UncountedDuplicates(_, _, _)

ConfigImportLoop_UncountedDuplicates(profiles, st, time) ==
  IF profiles = <<>> THEN st
  ELSE LET section == Head(profiles)
       IN IF section.accountId = <<>>
          THEN ConfigImportLoop_UncountedDuplicates(
                 Tail(profiles), [st EXCEPT !.skipped = @ + 1], time)
          ELSE IF HasAccountId(st.accounts, section.accountId)
          THEN ConfigImportLoop_UncountedDuplicates(Tail(profiles), st, time)
          ELSE ConfigImportLoop_UncountedDuplicates(
                 Tail(profiles),
                 [st EXCEPT
                    !.accounts =
                      Append(@, ConfigAccount(section, Uuid(st.uuids + 1),
                                              time)),
                    !.imported = @ + 1,
                    !.uuids = @ + 1],
                 time)

\* importFromAWSConfig: the loop over the parsed sections
RECURSIVE ConfigImportLoop(_, _, _)
ConfigImportLoop(profiles, st, time) ==
  IF profiles = <<>> THEN st
  ELSE LET section == Head(profiles)
       IN IF section.accountId = <<>>
             \/ HasAccountId(st.accounts, section.accountId)
          THEN ConfigImportLoop(Tail(profiles),
                                [st EXCEPT !.skipped = @ + 1], time)
          ELSE ConfigImportLoop(
                 Tail(profiles),
                 [st EXCEPT
                    !.accounts =
                      Append(@, ConfigAccount(section, Uuid(st.uuids + 1),
                                              time)),
                    !.imported = @ + 1,
                    !.uuids = @ + 1],
                 time)

\* importFromAWSConfig: what it returns and the document it writes, given
\* the document it read
importFromAWSConfig(data, configContent, uuids, time) ==
  LET st == ConfigImportLoop(parseAWSConfig(configContent),
                             [accounts |-> data.accounts, imported |-> 0,
                              skipped |-> 0, uuids |-> uuids], time)
  IN [data |-> [data EXCEPT !.accounts = st.accounts],
      imported |-> st.imported, skipped |-> st.skipped, uuids |-> st.uuids]

----------------------------------------------------------------------------
(* Background: background/service-worker.ts *)

DECRYPT_FAILED == "Failed to decrypt credentials"

\* The handler without its try/catch: a decrypt that fails rejects the
\* handler's promise and no response is sent
GetDecryptedCredentials_Uncaught(stored, accountId) ==
  LET account == getAccount(stored, accountId)
      hasUsername == /\ IsSome(account)
                     /\ IsSome(account[1].iamCredentials)
                     /\ account[1].iamCredentials[1].username # <<>>
      credentials == account[1].iamCredentials[1]
      decrypted == decrypt(credentials.encryptedPassword, LOCAL_KEY)
  IN IF ~hasUsername
     THEN [credentials |-> None, error |-> None, rejects |-> FALSE,
           decrypts |-> 0]
     ELSE IF credentials.encryptedPassword = <<>>
     THEN [credentials |-> Some([username |-> credentials.username,
                                 password |-> <<>>]),
           error |-> None, rejects |-> FALSE, decrypts |-> 0]
     ELSE IF decrypted.ok
     THEN [credentials |-> Some([username |-> credentials.username,
                                 password |-> decrypted.value]),
           error |-> None, rejects |-> FALSE, decrypts |-> 1]
     ELSE [credentials |-> None, error |-> None, rejects |-> TRUE,
           decrypts |-> 1]

\* handleMessage, case GET_DECRYPTED_CREDENTIALS: the response, whether the
\* handler's promise rejects, and how many times it called decrypt
GetDecryptedCredentials(stored, accountId) ==
  LET account == getAccount(stored, accountId)
      hasUsername == /\ IsSome(account)
                     /\ IsSome(account[1].iamCredentials)
                     /\ account[1].iamCredentials[1].username # <<>>
      credentials == account[1].iamCredentials[1]
      decrypted == decrypt(credentials.encryptedPassword, LOCAL_KEY)
  IN IF ~hasUsername
     THEN [credentials |-> None, error |-> None, rejects |-> FALSE,
           decrypts |-> 0]
     ELSE IF credentials.encryptedPassword = <<>>
     THEN [credentials |-> Some([username |-> credentials.username,
                                 password |-> <<>>]),
           error |-> None, rejects |-> FALSE, decrypts |-> 0]
     ELSE IF decrypted.ok
     THEN [credentials |-> Some([username |-> credentials.username,
                                 password |-> decrypted.value]),
           error |-> None, rejects |-> FALSE, decrypts |-> 1]
     ELSE [credentials |-> None, error |-> Some(DECRYPT_FAILED),
           rejects |-> FALSE, decrypts |-> 1]

----------------------------------------------------------------------------
(* Inputs *)

ACC1 == Repeat("1", 12)
ACC2 == Repeat("2", 12)

START_URL == <<"h", "t", "t", "p", "s", ":", "/", "/", "s", ".", "c", "o">>
ROLE_ARN == <<"a", "r", "n", ":", "a", "w", "s", ":", "i", "a", "m", ":", ":", "2", "2", "2", "2", "2", "2", "2", "2", "2", "2", "2", "2", ":", "r", "o", "l", "e", "/", "A">>
USERNAME == <<"b", "o", "b">>
PASSWORD == <<"p", "w">>

\* What the user may have typed into the form when it is submitted
IamForm ==
  [name |-> <<" ", "P", "r", "o", "d">>, accountId |-> ACC1,
   defaultRegion |-> US_EAST_1, authType |-> IAM, clientName |-> <<>>,
   tags |-> <<"a", ",", " ", ",", "b">>, color |-> DEFAULT_COLOR,
   iamUsername |-> USERNAME, iamPassword |-> PASSWORD,
   ssoStartUrl |-> <<>>, ssoRoleName |-> <<>>, roleArn |-> <<>>,
   externalId |-> <<>>]

RoleForm ==
  [IamForm EXCEPT !.authType = ASSUME_ROLE, !.accountId = ACC2,
                  !.roleArn = ROLE_ARN]

FormInputs ==
  {IamForm,
   [IamForm EXCEPT !.iamPassword = <<>>],
   RoleForm,
   [IamForm EXCEPT !.authType = SSO],
   [IamForm EXCEPT !.accountId = <<"1", "2", "a">>]}

\* Objects a JSON file handed to importAccounts may hold
JsonIamObject ==
  [id |-> Uuid(1), name |-> <<"D", "e", "v">>, accountId |-> ACC1,
   defaultRegion |-> US_EAST_1, authType |-> IAM, clientName |-> None,
   tags |-> None, color |-> None, isFavorite |-> None, createdAt |-> 0,
   lastUsed |-> None,
   iamCredentials |-> Some([username |-> USERNAME,
                            encryptedPassword |-> REDACTED]),
   ssoConfig |-> None, assumeRoleConfig |-> None]

JsonSsoObject ==
  [id |-> Uuid(1), name |-> <<"S", "s", "o">>, accountId |-> ACC2,
   defaultRegion |-> US_WEST_2, authType |-> SSO, clientName |-> None,
   tags |-> None, color |-> None, isFavorite |-> Some(TRUE), createdAt |-> 0,
   lastUsed |-> None, iamCredentials |-> None,
   ssoConfig |-> Some([startUrl |-> START_URL, region |-> None,
                       accountId |-> ACC2, roleName |-> <<>>]),
   assumeRoleConfig |-> None]

\* The texts handed to importAccounts: one JSON.parse rejects, the others
\* hold an accounts array (a null element is written None)
JsonInputs ==
  {[parses |-> FALSE, value |-> <<>>]}
  \cup {[parses |-> TRUE, value |-> v] :
          v \in {<<>>,
                 <<None>>,
                 <<Some(JsonIamObject)>>,
                 <<Some(JsonIamObject), Some(JsonIamObject)>>,
                 <<Some(JsonSsoObject), Some(JsonIamObject)>>,
                 <<Some(JsonSsoObject), None>>}}

\* The texts handed to importAccountsFromCSV
CsvInputs ==
  {<<"n", "a", "m", "e", ",", "a", "c", "c", "o", "u", "n", "t", "I", "d", ",", "u", "s", "e", "r", "n", "a", "m", "e">>,
   <<"n", "a", "m", "e", ",", "a", "c", "c", "o", "u", "n", "t", "I", "d", ",", "u", "s", "e", "r", "n", "a", "m", "e", "\n", "\"", "a", ",", "b", "\"", ",", "1", "1", "1", "1", "1", "1", "1", "1", "1", "1", "1", "1", ",", "b", "o", "b", "\n", "\n", "c", ",", "1", "1", "1", "1", "1", "1", "1", "1", "1", "1", "1", "1">>,
   <<"A", "c", "c", "o", "u", "n", "t", "_", "I", "D", ",", "A", "l", "i", "a", "s", "\n", "2", "2", "2", "2", "2", "2", "2", "2", "2", "2", "2", "2", ",", "Q", "\n", ",", "R">>}

\* The texts handed to importFromAWSConfig
ConfigInputs ==
  {<<>>,
   <<"[", "p", "r", "o", "f", "i", "l", "e", " ", "d", "e", "v", "]", "\n", "s", "s", "o", "_", "s", "t", "a", "r", "t", "_", "u", "r", "l", "=", "h", "t", "t", "p", "s", ":", "/", "/", "s", ".", "c", "o", "\n", "s", "s", "o", "_", "a", "c", "c", "o", "u", "n", "t", "_", "i", "d", "=", "1", "1", "1", "1", "1", "1", "1", "1", "1", "1", "1", "1", "\n", "[", "p", "r", "o", "d", "]", "\n", "r", "o", "l", "e", "_", "a", "r", "n", " ", "=", " ", "a", "r", "n", ":", "a", "w", "s", ":", "i", "a", "m", ":", ":", "2", "2", "2", "2", "2", "2", "2", "2", "2", "2", "2", "2", ":", "r", "o", "l", "e", "/", "A">>,
   <<"[", "b", "o", "t", "h", "]", "\n", "s", "s", "o", "_", "s", "t", "a", "r", "t", "_", "u", "r", "l", "=", "u", "\n", "r", "o", "l", "e", "_", "a", "r", "n", "=", "a", "r", "n", ":", "a", "w", "s", ":", "i", "a", "m", ":", ":", "1", "1", "1", "1", "1", "1", "1", "1", "1", "1", "1", "1", ":", "r", "o", "l", "e", "/", "A", "\n", "[", "n", "o", "i", "d", "]", "\n", "r", "e", "g", "i", "o", "n", " ", "=", " ", "u", "s", "-", "w", "e", "s", "t", "-", "2">>}

\* The positions a quick-switch shortcut may name
QuickSwitchIndexes == 1..MaxAccounts

\* The ids a message to the background may carry
MessageIds == {Uuid(n) : n \in 1..MaxUuid}

----------------------------------------------------------------------------
(* Initial state *)

Idle == [pc |-> "idle", index |-> 0, id |-> 0, data |-> <<>>]

Init ==
  /\ local = None
  /\ popupAccounts = <<>>
  /\ editingAccount = None
  /\ showForm = FALSE
  /\ isLoading = TRUE
  /\ nextUuid = 0
  /\ now \in 1..MaxTime
  /\ lastOp = [op |-> "init", out |-> <<>>]
  /\ popupTasks = <<>>
  /\ bgTask = Idle
  /\ begun = 0
  /\ blob = <<>>
  /\ passphrase = <<>>
  /\ outcome = <<>>
  /\ encryptCalls = <<>>
  /\ BrowserIdle

popupVars == <<popupAccounts, editingAccount, showForm, isLoading>>
raceVars == <<popupTasks, bgTask, begun>>
decryptVars == <<blob, passphrase, outcome, encryptCalls>>

InBounds(accounts, uuids) ==
  /\ Len(accounts) <= MaxAccounts
  /\ uuids <= MaxUuid

----------------------------------------------------------------------------
(* Popup actions, each handler run to completion *)

\* popup.tsx mounts: a new store, then loadAccounts
OpenPopup ==
  /\ isLoading
  /\ popupAccounts' = getAccounts(local)
  /\ isLoading' = FALSE
  /\ showForm' = FALSE
  /\ editingAccount' = None
  /\ lastOp' = [op |-> "loadAccounts", out |-> <<>>]
  /\ UNCHANGED <<local, nextUuid, now, raceVars, decryptVars, browserVars>>

\* The popup window closes: its store is discarded
ClosePopup ==
  /\ ~isLoading
  /\ popupAccounts' = <<>>
  /\ isLoading' = TRUE
  /\ showForm' = FALSE
  /\ editingAccount' = None
  /\ lastOp' = [op |-> "closePopup", out |-> <<>>]
  /\ UNCHANGED <<local, nextUuid, now, raceVars, decryptVars, browserVars>>

OpenNewAccountForm ==
  /\ ~isLoading /\ ~showForm
  /\ showForm' = TRUE
  /\ editingAccount' = None
  /\ lastOp' = [op |-> "openNewAccountForm", out |-> <<>>]
  /\ UNCHANGED <<local, popupAccounts, isLoading, nextUuid, now, raceVars,
                 decryptVars, browserVars>>

OpenEditAccountForm(i) ==
  /\ ~isLoading /\ ~showForm
  /\ showForm' = TRUE
  /\ editingAccount' = Some(popupAccounts[i])
  /\ lastOp' = [op |-> "openEditAccountForm", out |-> <<>>]
  /\ UNCHANGED <<local, popupAccounts, isLoading, nextUuid, now, raceVars,
                 decryptVars, browserVars>>

CloseForm ==
  /\ ~isLoading /\ showForm
  /\ showForm' = FALSE
  /\ editingAccount' = None
  /\ lastOp' = [op |-> "closeForm", out |-> <<>>]
  /\ UNCHANGED <<local, popupAccounts, isLoading, nextUuid, now, raceVars,
                 decryptVars, browserVars>>

\* handleSubmit when validate fails: nothing is stored
SubmitRejected(formData) ==
  /\ ~isLoading /\ showForm
  /\ ~validate(formData)
  /\ lastOp' = [op |-> "submitRejected", out |-> <<>>]
  /\ UNCHANGED <<local, popupVars, nextUuid, now, raceVars, decryptVars, browserVars>>

\* handleSubmit on the new-account form: createAccount
CreateAccount(formData, saltSeed, ivSeed) ==
  LET account == FormAccount(formData, None,
                             getRandomValues(SALT_LENGTH, saltSeed),
                             getRandomValues(IV_LENGTH, ivSeed),
                             Uuid(nextUuid + 1), now)
      data == saveAccount(getStorage(local), account)
  IN /\ ~isLoading /\ showForm /\ editingAccount = None
     /\ validate(formData)
     /\ InBounds(data.accounts, nextUuid + 1)
     /\ nextUuid' = nextUuid + 1
     /\ local' = setStorage(data)
     /\ popupAccounts' = data.accounts
     /\ showForm' = FALSE
     /\ lastOp' = [op |-> "createAccount", out |-> <<>>]
     /\ UNCHANGED <<editingAccount, isLoading, now, raceVars, decryptVars, browserVars>>

\* handleSubmit on the edit form: updateAccount
UpdateAccount(formData, saltSeed, ivSeed) ==
  LET account == FormAccount(formData, editingAccount,
                             getRandomValues(SALT_LENGTH, saltSeed),
                             getRandomValues(IV_LENGTH, ivSeed),
                             Uuid(0), now)
      data == saveAccount(getStorage(local), account)
  IN /\ ~isLoading /\ showForm /\ editingAccount # None
     /\ validate(formData)
     /\ InBounds(data.accounts, nextUuid)
     /\ local' = setStorage(data)
     /\ popupAccounts' = data.accounts
     /\ showForm' = FALSE
     /\ editingAccount' = None
     /\ lastOp' = [op |-> "updateAccount", out |-> <<>>]
     /\ UNCHANGED <<isLoading, nextUuid, now, raceVars, decryptVars, browserVars>>

\* removeAccount on the card of popupAccounts[i]
RemoveAccount(i) ==
  LET data == deleteAccount(getStorage(local), popupAccounts[i].id)
  IN /\ ~isLoading /\ ~showForm
     /\ local' = setStorage(data)
     /\ popupAccounts' = data.accounts
     /\ lastOp' = [op |-> "removeAccount", out |-> <<>>]
     /\ UNCHANGED <<editingAccount, showForm, isLoading, nextUuid, now,
                    raceVars, decryptVars, browserVars>>

----------------------------------------------------------------------------
(* Options page actions: options/options.tsx. The options page is a tab; the
   browser closes the popup when another window or tab takes the focus, so
   the page acts while the popup is closed. *)

ImportAccounts(json) ==
  LET result == importAccounts(getStorage(local), json, nextUuid, now)
  IN /\ isLoading
     /\ InBounds(result.data.accounts, result.uuids)
     /\ local' = IF result.threw THEN local ELSE setStorage(result.data)
     /\ nextUuid' = result.uuids
     /\ lastOp' = [op |-> "importAccounts",
                   out |-> [threw |-> result.threw,
                            imported |-> result.count]]
     /\ UNCHANGED <<popupVars, now, raceVars, decryptVars, browserVars>>

ImportAccountsFromCSV(csvContent) ==
  LET result == importAccountsFromCSV(getStorage(local), csvContent,
                                      nextUuid, now)
  IN /\ isLoading
     /\ InBounds(result.data.accounts, result.uuids)
     /\ local' = IF result.writes THEN setStorage(result.data) ELSE local
     /\ nextUuid' = result.uuids
     /\ lastOp' = [op |-> "importAccountsFromCSV",
                   out |-> [threw |-> FALSE, imported |-> result.imported,
                            skipped |-> result.skipped]]
     /\ UNCHANGED <<popupVars, now, raceVars, decryptVars, browserVars>>

ImportFromAWSConfig(configContent) ==
  LET result == importFromAWSConfig(getStorage(local), configContent,
                                    nextUuid, now)
  IN /\ isLoading
     /\ InBounds(result.data.accounts, result.uuids)
     /\ local' = setStorage(result.data)
     /\ nextUuid' = result.uuids
     /\ lastOp' = [op |-> "importFromAWSConfig",
                   out |-> [threw |-> FALSE, imported |-> result.imported,
                            skipped |-> result.skipped]]
     /\ UNCHANGED <<popupVars, now, raceVars, decryptVars, browserVars>>

ExportAccounts ==
  /\ isLoading
  /\ lastOp' = [op |-> "exportAccounts",
                out |-> exportAccounts(getAccounts(local))]
  /\ UNCHANGED <<local, popupVars, nextUuid, now, raceVars, decryptVars, browserVars>>

ExportAccountsToCSV(includeCredentials) ==
  /\ isLoading
  /\ lastOp' = [op |-> "exportAccountsToCSV",
                out |-> exportAccountsToCSV(getAccounts(local),
                                            includeCredentials)]
  /\ UNCHANGED <<local, popupVars, nextUuid, now, raceVars, decryptVars, browserVars>>

----------------------------------------------------------------------------
(* Background actions. Every one of them opens or focuses a tab, which
   closes the popup. *)

PopupClosed ==
  /\ popupAccounts' = <<>>
  /\ isLoading' = TRUE
  /\ showForm' = FALSE
  /\ editingAccount' = None

\* The card of popupAccounts[i] is clicked (AccountCard handleOpen): the
\* background handles OPEN_CONSOLE and the popup closes itself
OpenConsole(i) ==
  LET accountId == popupAccounts[i].id
      account == getAccount(local, accountId)
      result == updateLastUsed(getStorage(local), accountId, now)
  IN /\ ~isLoading /\ ~showForm
     /\ local' = IF IsSome(account) /\ result.writes
                 THEN setStorage(result.data) ELSE local
     /\ PopupClosed
     /\ lastOp' = [op |-> "openConsole", out |-> <<>>]
     /\ UNCHANGED <<nextUuid, now, raceVars, decryptVars, browserVars>>

\* commands.onCommand, quick-switch-<index>
QuickSwitch(index) ==
  LET accounts == getAccounts(local)
      found == index <= Len(accounts)
      result == updateLastUsed(getStorage(local), accounts[index].id, now)
  IN /\ local' = IF found /\ result.writes
                 THEN setStorage(result.data) ELSE local
     /\ IF found THEN PopupClosed ELSE UNCHANGED popupVars
     /\ lastOp' = [op |-> "quickSwitch", out |-> <<>>]
     /\ UNCHANGED <<nextUuid, now, raceVars, decryptVars, browserVars>>

----------------------------------------------------------------------------
(* The operations on the profile list, each handler run to completion *)

Next ==
  \/ OpenPopup
  \/ ClosePopup
  \/ OpenNewAccountForm
  \/ \E i \in 1..Len(popupAccounts) : OpenEditAccountForm(i)
  \/ CloseForm
  \/ \E formData \in FormInputs : SubmitRejected(formData)
  \/ \E formData \in FormInputs, saltSeed, ivSeed \in RandomSeeds :
       CreateAccount(formData, saltSeed, ivSeed)
  \/ \E formData \in FormInputs, saltSeed, ivSeed \in RandomSeeds :
       UpdateAccount(formData, saltSeed, ivSeed)
  \/ \E i \in 1..Len(popupAccounts) : RemoveAccount(i)
  \/ \E json \in JsonInputs : ImportAccounts(json)
  \/ \E csvContent \in CsvInputs : ImportAccountsFromCSV(csvContent)
  \/ \E configContent \in ConfigInputs : ImportFromAWSConfig(configContent)
  \/ ExportAccounts
  \/ \E includeCredentials \in BOOLEAN : ExportAccountsToCSV(includeCredentials)
  \/ \E i \in 1..Len(popupAccounts) : OpenConsole(i)
  \/ \E index \in QuickSwitchIndexes : QuickSwitch(index)

Spec == Init /\ [][Next]_vars

----------------------------------------------------------------------------
(* Properties of the profile list *)

storedAccounts == getAccounts(local)

AccountIdsOf(accounts) == [i \in 1..Len(accounts) |-> accounts[i].accountId]

Distinct(seq) ==
  \A i, j \in 1..Len(seq) : i # j => seq[i] # seq[j]

IsPrefix(short, long) ==
  /\ Len(short) <= Len(long)
  /\ SubSeq(long, 1, Len(short)) = short

ImportOps == {"importAccounts", "importAccountsFromCSV", "importFromAWSConfig"}

\* C1 as stated: in every reachable state of the persisted store no two
\* stored profiles have the same accountId.
C1_NoTwoProfilesShareAccountId == Distinct(AccountIdsOf(storedAccounts))

\* C1, amended: delete, updateLastUsed and the three imports, applied to a
\* list whose accountIds are pairwise distinct, leave them pairwise
\* distinct; form create and update make no such test (the list above is
\* reached through them).
C1_DistinctKeptExceptByForm ==
  [][(/\ Distinct(AccountIdsOf(storedAccounts))
      /\ lastOp'.op \in ImportOps \cup {"removeAccount", "openConsole",
                                        "quickSwitch"})
       => Distinct(AccountIdsOf(storedAccounts'))]_vars

\* An import of two sections, one of them skipped for the accountId of a
\* profile already stored
C1_Witness ==
  /\ lastOp.op = "importFromAWSConfig"
  /\ lastOp.out.imported = 1
  /\ lastOp.out.skipped = 1
  /\ Len(storedAccounts) = 2
  /\ Distinct(AccountIdsOf(storedAccounts))

\* The accountIds an import appends: the candidates' accountIds, in order,
\* each one kept when the working list does not hold it yet
RECURSIVE AppendedIds(_, _)
AppendedIds(workingIds, candidateIds) ==
  IF candidateIds = <<>> THEN <<>>
  ELSE IF \E i \in 1..Len(workingIds) : workingIds[i] = Head(candidateIds)
  THEN AppendedIds(workingIds, Tail(candidateIds))
  ELSE <<Head(candidateIds)>>
       \o AppendedIds(Append(workingIds, Head(candidateIds)),
                      Tail(candidateIds))

ImportRule(before, after, candidateIds) ==
  /\ AccountIdsOf(after)
       = AccountIdsOf(before) \o AppendedIds(AccountIdsOf(before), candidateIds)
  /\ Distinct(AccountIdsOf(before)) => Distinct(AccountIdsOf(after))

JsonCandidateIds(json) ==
  [i \in 1..Len(json.value) |-> json.value[i][1].accountId]

\* A data line is a candidate when it names an account id
CsvCandidateIds(csvContent) ==
  LET lines == Split(Trim(csvContent), "\n")
      first == parseCSVLine(lines[1])
      headers == [h \in 1..Len(first) |-> Trim(ToLowerCase(first[h]))]
      ids == [i \in 1..(Len(lines) - 1) |->
                CsvAccount(headers, parseCSVLine(lines[i + 1]), Uuid(0), 0)
                  .accountId]
  IN FilterNonEmpty(ids)

ConfigCandidateIds(configContent) ==
  LET profiles == parseAWSConfig(configContent)
  IN [i \in 1..Len(profiles) |-> profiles[i].accountId]

\* C2: for each of the three imports a candidate is appended if and only if
\* no profile of the working list (the profiles stored before the call and
\* the candidates appended earlier in the call) has its accountId; a list
\* with pairwise distinct accountIds stays so, also when the input repeats
\* an accountId. A CSV line that names no account id is no candidate.
C2_AppendedIffNotInWorkingList ==
  [][/\ \A json \in JsonInputs :
          (/\ lastOp'.op = "importAccounts"
           /\ ~lastOp'.out.threw
           /\ ImportAccounts(json))
            => ImportRule(storedAccounts, storedAccounts',
                          JsonCandidateIds(json))
     /\ \A csvContent \in CsvInputs :
          (/\ lastOp'.op = "importAccountsFromCSV"
           /\ ImportAccountsFromCSV(csvContent))
            => ImportRule(storedAccounts, storedAccounts',
                          CsvCandidateIds(csvContent))
     /\ \A configContent \in ConfigInputs :
          (/\ lastOp'.op = "importFromAWSConfig"
           /\ ImportFromAWSConfig(configContent))
            => ImportRule(storedAccounts, storedAccounts',
                          ConfigCandidateIds(configContent))]_vars

\* A CSV import whose second candidate repeats the accountId of its first
\* (the other line skipped is the empty one)
C2_Witness ==
  /\ lastOp.op = "importAccountsFromCSV"
  /\ lastOp.out.imported = 1
  /\ lastOp.out.skipped = 2
  /\ Len(storedAccounts) = 1
  /\ storedAccounts[1].accountId = ACC1

\* C3: no import modifies, removes or reorders a profile stored before the
\* call: the list before the call is, field for field, a prefix of the list
\* after it; a candidate with a duplicate accountId never overwrites or
\* merges into the stored profile.
C3_ImportKeepsStoredProfiles ==
  [][lastOp'.op \in ImportOps
       => IsPrefix(storedAccounts, storedAccounts')]_vars

\* A JSON import behind a profile made in the form: the file's entry for
\* the form's accountId is skipped, its other entry appended
C3_Witness ==
  /\ lastOp.op = "importAccounts"
  /\ lastOp.out.imported = 1
  /\ Len(storedAccounts) = 2
  /\ storedAccounts[1].accountId = ACC1
  /\ storedAccounts[1].name = Trim(IamForm.name)
  /\ storedAccounts[2].accountId = ACC2

\* The values an encryptedPassword is replaced by to compare two stores
SecretValues == {<<>>, REDACTED, <<"c", "2", "V", "j", "c", "m", "V", "0">>}

\* The lists that differ from accounts only in encryptedPassword values
SecretVariants(accounts) ==
  {[i \in 1..Len(accounts) |->
      IF IsSome(accounts[i].iamCredentials)
      THEN [accounts[i] EXCEPT
              !.iamCredentials =
                Some([@[1] EXCEPT !.encryptedPassword = secrets[i]])]
      ELSE accounts[i]] :
     secrets \in [1..Len(accounts) -> SecretValues]}

\* In the JSON export every iamCredentials holds the redaction marker
JsonRedacted(exported) ==
  \A i \in 1..Len(exported) :
    \A k \in 1..Len(exported[i]) :
      exported[i][k][1] = "iamCredentials"
        => \A f \in 1..Len(exported[i][k][2]) :
             exported[i][k][2][f][1] = "encryptedPassword"
               => exported[i][k][2][f][2] = REDACTED

EndsWith(text, suffix) ==
  /\ Len(text) >= Len(suffix)
  /\ SubSeq(text, Len(text) - Len(suffix) + 1, Len(text)) = suffix

\* In the CSV export with the credential column, every data line ends with
\* the placeholder as its last field
CsvPlaceholders(exported) ==
  LET lines == Split(exported, "\n")
  IN \A i \in 2..Len(lines) :
       EndsWith(lines[i], <<",">> \o CSV_PLACEHOLDER)

\* C4: what exportAccounts and exportAccountsToCSV (with or without the
\* credential column) return does not depend on the stored secrets: any
\* list that differs only in encryptedPassword values exports to the same
\* output; the JSON holds the redaction marker in every iamCredentials, the
\* CSV credential column the same placeholder in every row; and exporting
\* leaves the store as it was.
C4_ExportsIndependentOfSecrets ==
  [][/\ lastOp'.op \in {"exportAccounts", "exportAccountsToCSV"}
          => local' = local
     /\ lastOp'.op = "exportAccounts"
          => /\ \A other \in SecretVariants(storedAccounts) :
                  exportAccounts(other) = lastOp'.out
             /\ JsonRedacted(lastOp'.out)
     /\ lastOp'.op = "exportAccountsToCSV"
          => /\ \E includeCredentials \in BOOLEAN :
                  \A other \in SecretVariants(storedAccounts) :
                    exportAccountsToCSV(other, includeCredentials)
                      = lastOp'.out
             /\ lastOp'.out = exportAccountsToCSV(storedAccounts, TRUE)
                  => CsvPlaceholders(lastOp'.out)]_vars

\* A JSON export of a list that holds an encrypted password
C4_Witness ==
  /\ lastOp.op = "exportAccounts"
  /\ \E i \in 1..Len(storedAccounts) :
       /\ IsSome(storedAccounts[i].iamCredentials)
       /\ storedAccounts[i].iamCredentials[1].encryptedPassword # <<>>

\* C5: every profile appended by importAccounts has no iamCredentials
\* whatever the file's entry carried, an id generated by the call (the id of
\* the entry is discarded) and createdAt set to the time of the import.
C5_JsonImportStripsAndRenews ==
  [][(lastOp'.op = "importAccounts" /\ ~lastOp'.out.threw)
       => \A i \in (Len(storedAccounts) + 1)..Len(storedAccounts') :
            /\ storedAccounts'[i].iamCredentials = None
            /\ \E n \in (nextUuid + 1)..nextUuid' :
                 storedAccounts'[i].id = Uuid(n)
            /\ \A j \in 1..Len(storedAccounts') :
                 j # i => storedAccounts'[j].id # storedAccounts'[i].id
            /\ storedAccounts'[i].createdAt = now]_vars

\* The file's entry had credentials, the id of the profile stored first and
\* another createdAt
C5_Witness ==
  /\ lastOp.op = "importAccounts"
  /\ lastOp.out.imported = 1
  /\ Len(storedAccounts) = 2
  /\ storedAccounts[1].id = JsonIamObject.id
  /\ storedAccounts[2].name = JsonIamObject.name
  /\ storedAccounts[2].id # JsonIamObject.id
  /\ JsonIamObject.iamCredentials # None
  /\ JsonIamObject.createdAt # now

Populated(account) ==
  {IAM : x \in {1} \cap {n \in {1} : IsSome(account.iamCredentials)}}
  \cup {SSO : x \in {1} \cap {n \in {1} : IsSome(account.ssoConfig)}}
  \cup {ASSUME_ROLE :
          x \in {1} \cap {n \in {1} : IsSome(account.assumeRoleConfig)}}

\* C6 as stated: every stored profile has exactly one of iamCredentials,
\* ssoConfig and assumeRoleConfig populated, the one of its authType.
C6_ExactlyOnePopulated ==
  \A i \in 1..Len(storedAccounts) :
    Populated(storedAccounts[i]) = {storedAccounts[i].authType}

\* C6, amended: a stored profile that has iamCredentials has authType iam
\* and neither ssoConfig nor assumeRoleConfig. (A profile may have none of
\* the three, and one imported from a provider config both ssoConfig and
\* assumeRoleConfig.)
C6_CredentialsOnlyWithIam ==
  \A i \in 1..Len(storedAccounts) :
    IsSome(storedAccounts[i].iamCredentials)
      => Populated(storedAccounts[i]) = {IAM}
         /\ storedAccounts[i].authType = IAM

\* The edit form turned an imported profile with ssoConfig into one with
\* iamCredentials
C6_Witness ==
  /\ lastOp.op = "updateAccount"
  /\ \E i \in 1..Len(storedAccounts) :
       /\ IsSome(storedAccounts[i].iamCredentials)
       /\ storedAccounts[i].createdAt = now
       /\ storedAccounts[i].name = Trim(IamForm.name)
  /\ \E i \in 1..Len(storedAccounts) : Populated(storedAccounts[i]) = {}

----------------------------------------------------------------------------
(* The handlers split at their awaits. Every storage function reads the
   whole document with one call and writes it back with another; between
   the two, and between a write and the loadAccounts that follows it, other
   handlers run. The popup page stays open here. *)

\* A document the operations above reach: two profiles made in the form
RaceDocument(time) ==
  saveAccount(
    saveAccount(EmptyDocument,
                FormAccount(IamForm, None, getRandomValues(SALT_LENGTH, 1),
                            getRandomValues(IV_LENGTH, 1), Uuid(1), time)),
    FormAccount(RoleForm, None, getRandomValues(SALT_LENGTH, 1),
                getRandomValues(IV_LENGTH, 1), Uuid(2), time))

RaceFormInputs == {[IamForm EXCEPT !.iamPassword = <<>>]}

InitRace ==
  /\ now \in 1..MaxTime
  /\ local = Some(RaceDocument(now))
  /\ popupAccounts = RaceDocument(now).accounts
  /\ editingAccount = None
  /\ showForm = FALSE
  /\ isLoading = FALSE
  /\ nextUuid = 2
  /\ lastOp = [op |-> "init", out |-> <<>>]
  /\ popupTasks = <<>>
  /\ bgTask = Idle
  /\ begun = 0
  /\ blob = <<>>
  /\ passphrase = <<>>
  /\ outcome = <<>>
  /\ encryptCalls = <<>>
  /\ BrowserIdle

\* A handler of the popup that has called saveAccount or deleteAccount
PopupTask(kind, after, account) ==
  [kind |-> kind, after |-> after, pc |-> "read", account |-> account,
   data |-> <<>>]

Started(task) ==
  /\ Len(popupTasks) < MaxInFlight
  /\ begun < MaxCalls
  /\ begun' = begun + 1
  /\ popupTasks' = Append(popupTasks, task)
  /\ lastOp' = [op |-> "begin", out |-> <<>>]
  /\ UNCHANGED <<local, popupVars, nextUuid, now, bgTask, decryptVars, browserVars>>

\* toggleFavorite up to the getStorage of its saveAccount
BeginToggleFavorite(i) ==
  /\ ~isLoading /\ ~showForm
  /\ Started(PopupTask("save", "toggleFavorite", Toggled(popupAccounts[i])))

\* handleSubmit on the edit form, up to the getStorage of its saveAccount
BeginUpdateAccount(formData, saltSeed, ivSeed) ==
  /\ ~isLoading /\ showForm /\ editingAccount # None
  /\ validate(formData)
  /\ Started(PopupTask("save", "updateAccount",
                       FormAccount(formData, editingAccount,
                                   getRandomValues(SALT_LENGTH, saltSeed),
                                   getRandomValues(IV_LENGTH, ivSeed),
                                   Uuid(0), now)))

\* removeAccount up to the getStorage of its deleteAccount
BeginRemoveAccount(i) ==
  /\ ~isLoading /\ ~showForm
  /\ Started(PopupTask("delete", "removeAccount", popupAccounts[i]))

\* await getStorage() in saveAccount and deleteAccount
PopupReadStorage(k) ==
  /\ popupTasks[k].pc = "read"
  /\ popupTasks' = [popupTasks EXCEPT ![k].pc = "write",
                                      ![k].data = Some(getStorage(local))]
  /\ lastOp' = [op |-> "read", out |-> <<>>]
  /\ UNCHANGED <<local, popupVars, nextUuid, now, bgTask, begun, decryptVars, browserVars>>

\* The document a handler of the popup writes: the one it read, changed
WriteBack(task) ==
  IF task.kind = "save" THEN saveAccount(task.data[1], task.account)
  ELSE deleteAccount(task.data[1], task.account.id)

\* What a write did: whether the id matched a profile of the document read,
\* and whether the document was written anew since the read
WriteReport(kind, data, id, account) ==
  [kind |-> kind, id |-> id, account |-> account, read |-> data,
   before |-> getStorage(local),
   matched |-> FindIndexById(data.accounts, id) > 0,
   overlapped |-> getStorage(local) # data]

\* A write that takes the document as it is stored at the time of the write
\* and applies the change to that
PopupWriteStorage_Reread(k) ==
  LET task == popupTasks[k]
      written == WriteBack([task EXCEPT !.data = Some(getStorage(local))])
  IN /\ task.pc = "write"
     /\ Len(written.accounts) <= MaxAccounts
     /\ local' = setStorage(written)
     /\ isLoading' = TRUE
     /\ popupTasks' = [popupTasks EXCEPT ![k].pc = "load"]
     /\ lastOp' = [op |-> "write",
                   out |-> WriteReport(task.kind, task.data[1],
                                       task.account.id, task.account)]
     /\ UNCHANGED <<popupAccounts, editingAccount, showForm, nextUuid, now,
                    bgTask, begun, decryptVars, browserVars>>

\* await setStorage(data) in saveAccount and deleteAccount; the handler
\* goes on with loadAccounts, which shows the spinner
PopupWriteStorage(k) ==
  LET task == popupTasks[k]
      written == WriteBack(task)
  IN /\ task.pc = "write"
     /\ Len(written.accounts) <= MaxAccounts
     /\ local' = setStorage(written)
     /\ isLoading' = TRUE
     /\ popupTasks' = [popupTasks EXCEPT ![k].pc = "load"]
     /\ lastOp' = [op |-> "write",
                   out |-> WriteReport(task.kind, task.data[1],
                                       task.account.id, task.account)]
     /\ UNCHANGED <<popupAccounts, editingAccount, showForm, nextUuid, now,
                    bgTask, begun, decryptVars, browserVars>>

\* await getAccounts() in loadAccounts, and what the handler sets after it
PopupLoadAccounts(k) ==
  LET task == popupTasks[k]
  IN /\ task.pc = "load"
     /\ popupAccounts' = getAccounts(local)
     /\ isLoading' = FALSE
     /\ showForm' = IF task.after = "updateAccount" THEN FALSE ELSE showForm
     /\ editingAccount' = IF task.after = "updateAccount" THEN None
                          ELSE editingAccount
     /\ popupTasks' = SubSeq(popupTasks, 1, k - 1)
                      \o SubSeq(popupTasks, k + 1, Len(popupTasks))
     /\ lastOp' = [op |-> "loadAccounts", out |-> <<>>]
     /\ UNCHANGED <<local, nextUuid, now, bgTask, begun, decryptVars, browserVars>>

\* commands.onCommand, quick-switch-<index>: the handler is called
BeginQuickSwitch(index) ==
  /\ bgTask = Idle
  /\ begun < MaxCalls
  /\ begun' = begun + 1
  /\ bgTask' = [pc |-> "getAccounts", index |-> index, id |-> 0,
                data |-> <<>>]
  /\ lastOp' = [op |-> "begin", out |-> <<>>]
  /\ UNCHANGED <<local, popupVars, nextUuid, now, popupTasks, decryptVars, browserVars>>

\* await getAccounts(): the profile at the index, if there is one
QuickSwitchGetAccounts ==
  LET accounts == getAccounts(local)
  IN /\ bgTask.pc = "getAccounts"
     /\ bgTask' = IF bgTask.index <= Len(accounts)
                  THEN [bgTask EXCEPT !.pc = "updateLastUsed",
                                      !.id = accounts[bgTask.index].id]
                  ELSE Idle
     /\ lastOp' = [op |-> "read", out |-> <<>>]
     /\ UNCHANGED <<local, popupVars, nextUuid, now, popupTasks, begun,
                    decryptVars, browserVars>>

\* await getStorage() in updateLastUsed: nothing more when no profile has
\* the id
UpdateLastUsedRead ==
  LET data == getStorage(local)
      found == updateLastUsed(data, bgTask.id, now).writes
  IN /\ bgTask.pc = "updateLastUsed"
     /\ bgTask' = IF found
                  THEN [bgTask EXCEPT !.pc = "write", !.data = Some(data)]
                  ELSE Idle
     /\ lastOp' = IF found THEN [op |-> "read", out |-> <<>>]
                  ELSE [op |-> "updateLastUsed",
                        out |-> WriteReport("updateLastUsed", data,
                                            bgTask.id, None)]
     /\ UNCHANGED <<local, popupVars, nextUuid, now, popupTasks, begun,
                    decryptVars, browserVars>>

\* await setStorage(data) in updateLastUsed
UpdateLastUsedWrite ==
  LET written == updateLastUsed(bgTask.data[1], bgTask.id, now).data
  IN /\ bgTask.pc = "write"
     /\ local' = setStorage(written)
     /\ bgTask' = Idle
     /\ lastOp' = [op |-> "write",
                   out |-> WriteReport("updateLastUsed", bgTask.data[1],
                                       bgTask.id, None)]
     /\ UNCHANGED <<popupVars, nextUuid, now, popupTasks, begun,
                    decryptVars, browserVars>>

NextRace ==
  \/ \E i \in 1..Len(popupAccounts) : OpenEditAccountForm(i)
  \/ CloseForm
  \/ \E i \in 1..Len(popupAccounts) : BeginToggleFavorite(i)
  \/ \E formData \in RaceFormInputs, saltSeed, ivSeed \in RandomSeeds :
       BeginUpdateAccount(formData, saltSeed, ivSeed)
  \/ \E i \in 1..Len(popupAccounts) : BeginRemoveAccount(i)
  \/ \E k \in 1..Len(popupTasks) : PopupReadStorage(k)
  \/ \E k \in 1..Len(popupTasks) : PopupWriteStorage(k)
  \/ \E k \in 1..Len(popupTasks) : PopupLoadAccounts(k)
  \/ \E index \in QuickSwitchIndexes : BeginQuickSwitch(index)
  \/ QuickSwitchGetAccounts
  \/ UpdateLastUsedRead
  \/ UpdateLastUsedWrite

SpecRace == InitRace /\ [][NextRace]_vars

----------------------------------------------------------------------------
(* Calls with an id no stored profile has *)

\* The steps that end a storage function given an id: a write, or the read
\* of an updateLastUsed that found nothing to write
EndsStorageCall(op) == op.op \in {"write", "updateLastUsed"}

----------------------------------------------------------------------------
(* Overlapping read-modify-write *)

\* The document a storage function writes, from what it read
WrittenFrom(r) ==
  IF r.kind = "save" THEN saveAccount(r.read, r.account)
  ELSE IF r.kind = "delete" THEN deleteAccount(r.read, r.id)
  ELSE updateLastUsed(r.read, r.id, now).data

\* C8: every write stores the whole document the writer read with only the
\* writer's change applied, whatever was stored in between: the write is
\* not held back or merged when the document has changed since the read, so
\* a change written between the read and the write is gone. A saveAccount
\* from the popup stores the profile as the popup held it in memory.
C8_LaterWriterSnapshotWins ==
  [][lastOp'.op = "write"
       => LET r == lastOp'.out
          IN /\ local' = Some(WrittenFrom(r))
             /\ r.kind = "save"
                  => getAccount(local', r.id) = Some(r.account)]_vars

\* updateLastUsed of the background has written the document it read before
\* the popup stored a favorite flag: the flag is gone from the stored list
C8_Witness ==
  /\ lastOp.op = "write"
  /\ lastOp.out.kind = "updateLastUsed"
  /\ lastOp.out.overlapped
  /\ \E i \in 1..Len(storedAccounts) :
       /\ i <= Len(lastOp.out.before.accounts)
       /\ lastOp.out.before.accounts[i].id = storedAccounts[i].id
       /\ IsSome(lastOp.out.before.accounts[i].isFavorite)
       /\ storedAccounts[i].isFavorite = None
       /\ IsSome(storedAccounts[i].lastUsed)

----------------------------------------------------------------------------
(* GET_DECRYPTED_CREDENTIALS: background/service-worker.ts. The handler
   reads the document once and answers; it writes nothing. The documents it
   may find hold the profiles the form makes, and profiles whose stored
   password text does not decrypt under LOCAL_KEY: chrome.storage.local
   outlives the build that wrote it. *)

OTHER_KEY == <<"o", "l", "d", "-", "k", "e", "y">>

SsoForm == [IamForm EXCEPT !.authType = SSO, !.ssoStartUrl = START_URL]

CredForms ==
  {IamForm,
   [IamForm EXCEPT !.iamPassword = <<>>],
   [IamForm EXCEPT !.iamUsername = <<>>],
   RoleForm,
   SsoForm}

CredSalt == getRandomValues(SALT_LENGTH, 1)
CredIv == getRandomValues(IV_LENGTH, 1)

\* Stored password texts that decrypt rejects: written under another key,
\* cut short, not base64, and blank
BadBlobs ==
  {encrypt(PASSWORD, OTHER_KEY, CredSalt, CredIv),
   SubSeq(encrypt(PASSWORD, LOCAL_KEY, CredSalt, CredIv), 1, 20),
   <<"!", "!", "!", "!">>,
   <<" ">>}

CredProfiles(id, time) ==
  {FormAccount(formData, None, CredSalt, CredIv, id, time) :
     formData \in CredForms}
  \cup
  {[FormAccount(IamForm, None, CredSalt, CredIv, id, time)
      EXCEPT !.iamCredentials[1].encryptedPassword = text] :
     text \in BadBlobs}

CredDocuments(time) ==
  {EmptyDocument}
  \cup {[EmptyDocument EXCEPT !.accounts = <<p>>] :
          p \in CredProfiles(Uuid(1), time)}
  \cup {[EmptyDocument EXCEPT !.accounts = <<p, q>>] :
          p \in CredProfiles(Uuid(1), time),
          q \in CredProfiles(Uuid(2), time)}

InitCred ==
  /\ now \in 1..MaxTime
  /\ local \in {None} \cup {Some(data) : data \in CredDocuments(now)}
  /\ popupAccounts = <<>>
  /\ editingAccount = None
  /\ showForm = FALSE
  /\ isLoading = TRUE
  /\ nextUuid = Len(getAccounts(local))
  /\ lastOp = [op |-> "init", out |-> <<>>]
  /\ popupTasks = <<>>
  /\ bgTask = Idle
  /\ begun = 0
  /\ blob = <<>>
  /\ passphrase = <<>>
  /\ outcome = <<>>
  /\ encryptCalls = <<>>
  /\ BrowserIdle

\* onMessage with type GET_DECRYPTED_CREDENTIALS and payload { accountId }
HandleGetDecryptedCredentials(accountId) ==
  /\ lastOp' = [op |-> "getDecryptedCredentials",
                out |-> [accountId |-> accountId,
                         response |->
                           GetDecryptedCredentials(local, accountId)]]
  /\ UNCHANGED <<local, popupVars, nextUuid, now, raceVars, decryptVars, browserVars>>

NextCred ==
  \E accountId \in MessageIds : HandleGetDecryptedCredentials(accountId)

SpecCred == InitCred /\ [][NextCred]_vars

\* C9: the answer to GET_DECRYPTED_CREDENTIALS never rejects; it is
\* credentials = null when no profile has the id or the profile is not an
\* iam profile; the username with password '' when a username is stored
\* with an empty encryptedPassword; the username with the plaintext when the
\* stored text is what encrypt made of it under LOCAL_KEY; and credentials =
\* null, after exactly one call of decrypt, when decrypt fails.
C9_CredentialsAnswer ==
  lastOp.op = "getDecryptedCredentials"
    => LET r == lastOp.out.response
           account == getAccount(local, lastOp.out.accountId)
           stored == account[1].iamCredentials[1]
           hasUsername == /\ IsSome(account)
                          /\ IsSome(account[1].iamCredentials)
                          /\ stored.username # <<>>
       IN /\ ~r.rejects
          /\ (account = None \/ account[1].authType # IAM)
               => /\ r.credentials = None
                  /\ r.decrypts = 0
          /\ (hasUsername /\ stored.encryptedPassword = <<>>)
               => /\ r.credentials = Some([username |-> stored.username,
                                           password |-> <<>>])
                  /\ r.decrypts = 0
          /\ \A plaintext \in {PASSWORD, USERNAME} :
               (/\ hasUsername
                /\ stored.encryptedPassword
                     = encrypt(plaintext, LOCAL_KEY, CredSalt, CredIv))
                 => r.credentials = Some([username |-> stored.username,
                                          password |-> plaintext])
          /\ (/\ hasUsername
              /\ stored.encryptedPassword # <<>>
              /\ ~decrypt(stored.encryptedPassword, LOCAL_KEY).ok)
               => /\ r.credentials = None
                  /\ r.error = Some(DECRYPT_FAILED)
                  /\ r.decrypts = 1

\* A request for a profile whose stored password was written under another
\* key has been answered with credentials = null after one decrypt
C9_Witness ==
  /\ lastOp.op = "getDecryptedCredentials"
  /\ IsSome(getAccount(local, lastOp.out.accountId))
  /\ IsSome(getAccount(local, lastOp.out.accountId)[1].iamCredentials)
  /\ getAccount(local, lastOp.out.accountId)[1]
       .iamCredentials[1].encryptedPassword
         = encrypt(PASSWORD, OTHER_KEY, CredSalt, CredIv)
  /\ lastOp.out.response.credentials = None
  /\ lastOp.out.response.decrypts = 1
  /\ ~lastOp.out.response.rejects

----------------------------------------------------------------------------
(* decrypt on the texts it may be handed: shared/encryption.ts *)

MaxExtra == 2   \* bytes of a drawn blob beyond salt, iv and tag

Passphrases == {LOCAL_KEY, OTHER_KEY}

\* base64 of n bytes for every n up to a whole blob, the blobs encrypt
\* makes, and two texts that are not base64
DecryptBlobs ==
  {arrayBufferToBase64(getRandomValues(n, seed)) :
     n \in 0..(SALT_LENGTH + IV_LENGTH + TAG_LENGTH + MaxExtra),
     seed \in RandomSeeds}
  \cup {encrypt(plaintext, key, CredSalt, CredIv) :
          plaintext \in {<<>>, PASSWORD}, key \in Passphrases}
  \cup {<<"!", "!", "!", "!">>, <<"s", "h", "o", "r", "t">>}

InitDecrypt ==
  /\ now \in 1..MaxTime
  /\ local = None
  /\ popupAccounts = <<>>
  /\ editingAccount = None
  /\ showForm = FALSE
  /\ isLoading = TRUE
  /\ nextUuid = 0
  /\ lastOp = [op |-> "init", out |-> <<>>]
  /\ popupTasks = <<>>
  /\ bgTask = Idle
  /\ begun = 0
  /\ blob \in DecryptBlobs
  /\ passphrase \in Passphrases
  /\ outcome = None
  /\ encryptCalls = <<>>
  /\ BrowserIdle

\* decrypt(blob, passphrase) settles
Decrypt ==
  /\ outcome = None
  /\ outcome' = Some(decrypt(blob, passphrase))
  /\ lastOp' = [op |-> "decrypt", out |-> <<>>]
  /\ UNCHANGED <<local, popupVars, nextUuid, now, raceVars, blob, passphrase,
                 encryptCalls, browserVars>>

NextDecrypt == Decrypt

SpecDecrypt == InitDecrypt /\ [][NextDecrypt]_vars

\* The error decrypt rejects with when the tag of a whole blob does not
\* verify
AUTHENTICATION_FAILURE == "OperationError"

Calls(name) == \E i \in 1..Len(outcome[1].calls) : outcome[1].calls[i] = name

\* C10: decrypt of a text whose base64 decoding has at most 28 bytes (no
\* ciphertext after salt and iv) fails before deriveKey or any other
\* cryptographic call is made, with an error other than the one a long
\* enough blob with a wrong tag gets.
C10_ShortBlobRejectedBeforeDeriveKey ==
  (/\ outcome # None
   /\ base64ToArrayBuffer(blob).ok
   /\ Len(base64ToArrayBuffer(blob).bytes) <= SALT_LENGTH + IV_LENGTH)
    => /\ ~outcome[1].ok
       /\ ~Calls("deriveKey")
       /\ ~Calls("subtle.decrypt")
       /\ outcome[1].error # AUTHENTICATION_FAILURE

----------------------------------------------------------------------------
(* encrypt and decrypt called one after the other: shared/encryption.ts.
   Every encrypt call takes its salt and its iv from crypto.getRandomValues;
   the calls made are kept with what they drew and what they returned. *)

MaxEncrypts == 2   \* encrypt calls in a run
MaxDraw == 2       \* distinct outcomes of a getRandomValues draw here

Plaintexts == {<<>>, PASSWORD, <<"a", ",", "\"", "b">>}

Draws == 1..MaxDraw

InitCrypto ==
  /\ now \in 1..MaxTime
  /\ local = None
  /\ popupAccounts = <<>>
  /\ editingAccount = None
  /\ showForm = FALSE
  /\ isLoading = TRUE
  /\ nextUuid = 0
  /\ lastOp = [op |-> "init", out |-> <<>>]
  /\ popupTasks = <<>>
  /\ bgTask = Idle
  /\ begun = 0
  /\ blob = <<>>
  /\ passphrase = <<>>
  /\ outcome = None
  /\ encryptCalls = <<>>
  /\ BrowserIdle

\* encrypt(plaintext, password) settles
Encrypt(plaintext, password, saltSeed, ivSeed) ==
  LET salt == getRandomValues(SALT_LENGTH, saltSeed)
      iv == getRandomValues(IV_LENGTH, ivSeed)
  IN /\ Len(encryptCalls) < MaxEncrypts
     /\ encryptCalls' = Append(encryptCalls,
                            [plaintext |-> plaintext, password |-> password,
                             salt |-> salt, iv |-> iv,
                             blob |-> encrypt(plaintext, password, salt, iv)])
     /\ lastOp' = [op |-> "encrypt", out |-> <<>>]
     /\ UNCHANGED <<local, popupVars, nextUuid, now, raceVars, blob,
                    passphrase, outcome, browserVars>>

\* decrypt(encryptCalls[i].blob, password) settles
DecryptEncrypted(i, password) ==
  /\ blob' = encryptCalls[i].blob
  /\ passphrase' = password
  /\ outcome' = Some(decrypt(encryptCalls[i].blob, password))
  /\ lastOp' = [op |-> "decrypt", out |-> i]
  /\ UNCHANGED <<local, popupVars, nextUuid, now, raceVars, encryptCalls,
                 browserVars>>

NextCrypto ==
  \/ \E plaintext \in Plaintexts, password \in Passphrases,
        saltSeed, ivSeed \in Draws :
       Encrypt(plaintext, password, saltSeed, ivSeed)
  \/ \E i \in 1..Len(encryptCalls), password \in Passphrases :
       DecryptEncrypted(i, password)

SpecCrypto == InitCrypto /\ [][NextCrypto]_vars

\* C11: every blob encrypt returns is base64 of the salt it drew (16 bytes),
\* then the iv it drew (12 bytes), then the ciphertext; decrypt with the
\* passphrase of the encrypt call returns the plaintext of that call, and
\* decrypt with another passphrase fails and returns no plaintext.
C11_DecryptInvertsEncrypt ==
  /\ \A i \in 1..Len(encryptCalls) :
       LET call == encryptCalls[i]
           decoded == base64ToArrayBuffer(call.blob)
       IN /\ decoded.ok
          /\ Slice(decoded.bytes, 0, 16) = call.salt
          /\ Slice(decoded.bytes, 16, 28) = call.iv
          /\ Len(decoded.bytes) = 28 + Len(call.plaintext) + TAG_LENGTH
  /\ lastOp.op = "decrypt"
       => LET call == encryptCalls[lastOp.out]
          IN IF passphrase = call.password
             THEN /\ outcome[1].ok
                  /\ outcome[1].value = call.plaintext
             ELSE /\ ~outcome[1].ok
                  /\ outcome[1].value = <<>>

\* A blob made from a plaintext with a comma and a quote under LOCAL_KEY has
\* been decrypted under LOCAL_KEY
C11_Witness ==
  /\ lastOp.op = "decrypt"
  /\ encryptCalls[lastOp.out].plaintext = <<"a", ",", "\"", "b">>
  /\ encryptCalls[lastOp.out].password = LOCAL_KEY
  /\ passphrase = LOCAL_KEY
  /\ outcome[1].ok
  /\ outcome[1].value = <<"a", ",", "\"", "b">>

\* C12: every encrypt call puts the salt and the iv of its own draw into
\* its blob; two calls with the same plaintext and passphrase whose draws
\* differ return different blobs, and each of the two blobs decrypts to the
\* plaintext.
C12_EveryEncryptDrawsAnew ==
  \A i, j \in 1..Len(encryptCalls) :
    LET a == encryptCalls[i]
        b == encryptCalls[j]
    IN (/\ i # j
        /\ a.plaintext = b.plaintext
        /\ a.password = b.password
        /\ <<a.salt, a.iv>> # <<b.salt, b.iv>>)
         => /\ a.blob # b.blob
            /\ Slice(base64ToArrayBuffer(a.blob).bytes, 0, 28) = a.salt \o a.iv
            /\ Slice(base64ToArrayBuffer(b.blob).bytes, 0, 28) = b.salt \o b.iv
            /\ decrypt(a.blob, a.password).value = a.plaintext
            /\ decrypt(b.blob, b.password).value = b.plaintext
            /\ decrypt(a.blob, a.password).ok
            /\ decrypt(b.blob, b.password).ok

\* Two encrypt calls with the same plaintext and passphrase and different
\* draws have been made
C12_Witness ==
  /\ Len(encryptCalls) = 2
  /\ encryptCalls[1].plaintext = PASSWORD
  /\ encryptCalls[2].plaintext = PASSWORD
  /\ encryptCalls[1].password = encryptCalls[2].password
  /\ encryptCalls[1].iv # encryptCalls[2].iv
  /\ encryptCalls[1].blob # encryptCalls[2].blob

----------------------------------------------------------------------------
(* A later session: chrome.storage.local keeps the document between
   sessions, so the popup and the options page start on a store that holds a
   profile made at an earlier time. *)

EarlierDocument ==
  saveAccount(EmptyDocument,
              FormAccount(RoleForm, None, getRandomValues(SALT_LENGTH, 1),
                          getRandomValues(IV_LENGTH, 1), Uuid(1), 0))

InitResumed ==
  /\ local = Some(EarlierDocument)
  /\ popupAccounts = <<>>
  /\ editingAccount = None
  /\ showForm = FALSE
  /\ isLoading = TRUE
  /\ nextUuid = 1
  /\ now \in 1..MaxTime
  /\ lastOp = [op |-> "init", out |-> <<>>]
  /\ popupTasks = <<>>
  /\ bgTask = Idle
  /\ begun = 0
  /\ blob = <<>>
  /\ passphrase = <<>>
  /\ outcome = <<>>
  /\ encryptCalls = <<>>
  /\ BrowserIdle

SpecResumed == InitResumed /\ [][Next]_vars

IdsOf(accounts) == [i \in 1..Len(accounts) |-> accounts[i].id]

\* The ids the generator hands out during a step
HandedOut == {Uuid(n) : n \in (nextUuid + 1)..nextUuid'}

\* C13: the ids of the stored profiles are pairwise distinct in every
\* reachable state; a profile appended by the form or by one of the three
\* imports carries an id the UUID generator handed out in that step; and no
\* step changes the id or the createdAt of a profile that is already stored:
\* the form's edit, the imports and updateLastUsed keep every stored profile
\* at its position with both fields, and a delete leaves the others with
\* both fields.
C13_IdsGeneratedDistinctAndKept ==
  /\ [](Distinct(IdsOf(storedAccounts)))
  /\ [][LET before == storedAccounts
            after == storedAccounts'
        IN /\ \A i \in 1..Len(before), j \in 1..Len(after) :
                after[j].id = before[i].id
                  => after[j].createdAt = before[i].createdAt
           /\ lastOp'.op # "removeAccount"
                => /\ Len(before) <= Len(after)
                   /\ \A i \in 1..Len(before) : after[i].id = before[i].id
                   /\ \A j \in (Len(before) + 1)..Len(after) :
                        after[j].id \in HandedOut
           /\ lastOp'.op = "removeAccount"
                => \A j \in 1..Len(after) :
                     \E i \in 1..Len(before) : after[j].id = before[i].id]_vars

\* The form's edit has saved a profile made at an earlier time, next to a
\* profile added in this session
C13_Witness ==
  /\ lastOp.op = "updateAccount"
  /\ Len(storedAccounts) = 2
  /\ \E i \in 1..Len(storedAccounts) : storedAccounts[i].createdAt # now
  /\ \E i \in 1..Len(storedAccounts) : storedAccounts[i].createdAt = now

\* seq without its k-th element
Without(seq, k) == SubSeq(seq, 1, k - 1) \o SubSeq(seq, k + 1, Len(seq))

\* C14: getAccounts returns the profiles in the order they were inserted.
\* A create appends one profile behind the stored ones; an import leaves the
\* stored ones as a prefix of the new list; the form's edit replaces one
\* profile at its position and leaves the others where and as they were; a
\* delete takes one profile out and keeps the order of the rest; every other
\* operation keeps the order; and loadAccounts shows the list as stored.
C14_InsertionOrder ==
  [][LET before == storedAccounts
         after == storedAccounts'
     IN /\ lastOp'.op = "createAccount"
             => /\ Len(after) = Len(before) + 1
                /\ IsPrefix(before, after)
        /\ lastOp'.op \in ImportOps => IsPrefix(before, after)
        /\ lastOp'.op = "updateAccount"
             => /\ Len(after) = Len(before)
                /\ IdsOf(after) = IdsOf(before)
                /\ \E k \in 1..Len(before) :
                     /\ after[k].id = editingAccount[1].id
                     /\ \A i \in 1..Len(before) :
                          i # k => after[i] = before[i]
        /\ lastOp'.op = "removeAccount"
             => \E k \in 1..Len(before) : after = Without(before, k)
        /\ lastOp'.op
             \notin ImportOps \cup {"createAccount", "updateAccount",
                                    "removeAccount"}
             => IdsOf(after) = IdsOf(before)
        /\ lastOp'.op = "loadAccounts" => popupAccounts' = after]_vars

\* The form's edit has changed the first of two stored profiles
C14_Witness ==
  /\ lastOp.op = "updateAccount"
  /\ Len(storedAccounts) = 2
  /\ storedAccounts[1].createdAt = 0
  /\ storedAccounts[1].accountId # EarlierDocument.accounts[1].accountId

\* The stored document differs from the one before the step in the lastUsed
\* of its k-th profile, now the time of the call, and in nothing else
OnlyLastUsedOf(k) ==
  local' = Some([getStorage(local) EXCEPT !.accounts[k].lastUsed = Some(now)])

\* C15: updateLastUsed(id), called by OPEN_CONSOLE and by the quick-switch
\* command with the id of a stored profile, sets the lastUsed of that
\* profile; the other fields of the profile, the other profiles, the order of
\* the list and the rest of the document stay as they were.
C15_UpdateLastUsedTouchesOnlyLastUsed ==
  [][/\ \A index \in QuickSwitchIndexes :
          (/\ lastOp'.op = "quickSwitch"
           /\ index <= Len(storedAccounts)
           /\ QuickSwitch(index))
            => OnlyLastUsedOf(index)
     /\ \A i \in 1..Len(popupAccounts) :
          (/\ lastOp'.op = "openConsole"
           /\ OpenConsole(i))
            => \A k \in 1..Len(storedAccounts) :
                 storedAccounts[k].id = popupAccounts[i].id
                   => OnlyLastUsedOf(k)]_vars

\* The quick-switch command has stamped the second of two profiles that had
\* never been used
C15_Witness ==
  /\ lastOp.op = "quickSwitch"
  /\ Len(storedAccounts) = 2
  /\ storedAccounts[1].lastUsed = None
  /\ storedAccounts[2].lastUsed = Some(now)

\* The data lines of a CSV text: the lines behind the header line
CsvDataLines(csvContent) == Len(Split(Trim(csvContent), "\n")) - 1

\* What an import that returned says it did, against what it did
CountsAgree(candidates) ==
  /\ lastOp'.out.imported = Len(storedAccounts') - Len(storedAccounts)
  /\ lastOp'.out.skipped = candidates - lastOp'.out.imported

\* C16 as stated: every import, the JSON import included, returns a pair
\* of imported and skipped, imported the number of profiles it appended and
\* skipped the number of candidates it did not append.
C16_EveryImportReturnsImportedAndSkipped ==
  [][/\ \A json \in JsonInputs :
          (/\ lastOp'.op = "importAccounts"
           /\ ~lastOp'.out.threw
           /\ ImportAccounts(json))
            => /\ DOMAIN lastOp'.out = {"threw", "imported", "skipped"}
               /\ CountsAgree(Len(json.value))
     /\ \A csvContent \in CsvInputs :
          (/\ lastOp'.op = "importAccountsFromCSV"
           /\ ImportAccountsFromCSV(csvContent))
            => CountsAgree(CsvDataLines(csvContent))
     /\ \A configContent \in ConfigInputs :
          (/\ lastOp'.op = "importFromAWSConfig"
           /\ ImportFromAWSConfig(configContent))
            => CountsAgree(Len(ConfigCandidateIds(configContent)))]_vars

\* C16, amended: the CSV import and the config import return a pair of
\* imported and skipped, imported the number of profiles the call appended
\* and skipped the number of candidates it did not append (CSV data lines,
\* config sections that carry an account id); the JSON import returns the
\* number of profiles it appended and no count of the elements it skipped.
C16_CsvAndConfigReturnPairJsonReturnsCount ==
  [][/\ \A json \in JsonInputs :
          (/\ lastOp'.op = "importAccounts"
           /\ ~lastOp'.out.threw
           /\ ImportAccounts(json))
            => /\ DOMAIN lastOp'.out = {"threw", "imported"}
               /\ lastOp'.out.imported
                    = Len(storedAccounts') - Len(storedAccounts)
     /\ \A csvContent \in CsvInputs :
          (/\ lastOp'.op = "importAccountsFromCSV"
           /\ ImportAccountsFromCSV(csvContent))
            => /\ DOMAIN lastOp'.out = {"threw", "imported", "skipped"}
               /\ CountsAgree(CsvDataLines(csvContent))
     /\ \A configContent \in ConfigInputs :
          (/\ lastOp'.op = "importFromAWSConfig"
           /\ ImportFromAWSConfig(configContent))
            => /\ DOMAIN lastOp'.out = {"threw", "imported", "skipped"}
               /\ CountsAgree(Len(ConfigCandidateIds(configContent)))]_vars

\* A config import that appended one section and skipped the section whose
\* accountId was stored
C16_Witness ==
  /\ lastOp.op = "importFromAWSConfig"
  /\ lastOp.out.imported = 1
  /\ lastOp.out.skipped = 1
  /\ Len(storedAccounts) = 2
  /\ storedAccounts[1] = EarlierDocument.accounts[1]

\* The accountIds of the elements of a parsed JSON array that are objects
ObjectAccountIds(json) ==
  {json.value[i][1].accountId :
     i \in {n \in 1..Len(json.value) : json.value[n] # None}}

StoredAccountIds(accounts) == {accounts[i].accountId : i \in 1..Len(accounts)}

\* C17: no import throws because of one bad row or element. A JSON import
\* throws only when the text is no JSON array at all, and then the stored
\* document is as before; when the text parses, an element that is null is
\* passed over and the accountId of every other element is stored after the
\* call. The CSV import and the config import never throw, and the accountId
\* of every line or section that names one is stored after the call.
C17_NoImportThrowsForOneBadRow ==
  [][/\ \A json \in JsonInputs :
          (/\ lastOp'.op = "importAccounts"
           /\ ImportAccounts(json))
            => /\ lastOp'.out.threw => (~json.parses /\ local' = local)
               /\ json.parses
                    => ObjectAccountIds(json)
                         \subseteq StoredAccountIds(storedAccounts')
     /\ \A csvContent \in CsvInputs :
          (/\ lastOp'.op = "importAccountsFromCSV"
           /\ ImportAccountsFromCSV(csvContent))
            => /\ ~lastOp'.out.threw
               /\ \A i \in 1..Len(CsvCandidateIds(csvContent)) :
                    CsvCandidateIds(csvContent)[i]
                      \in StoredAccountIds(storedAccounts')
     /\ \A configContent \in ConfigInputs :
          (/\ lastOp'.op = "importFromAWSConfig"
           /\ ImportFromAWSConfig(configContent))
            => /\ ~lastOp'.out.threw
               /\ \A i \in 1..Len(ConfigCandidateIds(configContent)) :
                    ConfigCandidateIds(configContent)[i]
                      \in StoredAccountIds(storedAccounts')]_vars

----------------------------------------------------------------------------
(* The file formats: exportAccountsToCSV, importAccountsFromCSV and
   importFromAWSConfig on files whose header names, key spellings and
   values vary. The options page applies them to the store, new or kept
   from an earlier session. *)

\* CSV files: the account id column under each of its names, in the first,
\* the second and the last place; a file with no such column; lines with an
\* empty or a missing account id in front of a good line; quoted values; an
\* account id that is no twelve digits
CsvHeaderInputs ==
  {<<"n", "a", "m", "e", ",", "a", "c", "c", "o", "u", "n", "t", "I", "d", "\n", "A", ",", "1", "2", "a", "b">>,
   <<"A", "C", "C", "O", "U", "N", "T", "_", "I", "D", ",", "a", "l", "i", "a", "s", "\n", ",", "R", "\n", "2", "2", "2", "2", "2", "2", "2", "2", "2", "2", "2", "2", ",", "Q">>,
   <<"r", "e", "g", "i", "o", "n", ",", "n", "a", "m", "e", ",", "A", "W", "S", " ", "A", "c", "c", "o", "u", "n", "t", " ", "I", "D", "\n", "e", "u", ",", "N", ",", "1", "1", "1", "1", "1", "1", "1", "1", "1", "1", "1", "1">>,
   <<"n", "a", "m", "e", ",", "i", "d", "\n", "A", ",", "1", "1", "1", "1", "1", "1", "1", "1", "1", "1", "1", "1">>,
   <<"n", "a", "m", "e", ",", "A", "c", "c", "o", "u", "n", "t", "_", "I", "d", ",", "u", "s", "e", "r", "n", "a", "m", "e", "\n", "B", "\n", "\"", "x", ",", "y", "\"", ",", "2", "2", "2", "2", "2", "2", "2", "2", "2", "2", "2", "2", ",", "\"", "u", ",", "v", "\"">>}

\* The spellings of the keys of a config section
KeySpelling ==
  [snake |->
    [region |-> <<"r", "e", "g", "i", "o", "n">>,
     roleArn |-> <<"r", "o", "l", "e", "_", "a", "r", "n">>,
     externalId |-> <<"e", "x", "t", "e", "r", "n", "a", "l", "_", "i", "d">>,
     ssoStartUrl |-> <<"s", "s", "o", "_", "s", "t", "a", "r", "t", "_", "u", "r", "l">>,
     ssoAccountId |-> <<"s", "s", "o", "_", "a", "c", "c", "o", "u", "n", "t", "_", "i", "d">>,
     ssoRoleName |-> <<"s", "s", "o", "_", "r", "o", "l", "e", "_", "n", "a", "m", "e">>],
   mixed |->
    [region |-> <<"R", "e", "g", "i", "o", "n">>,
     roleArn |-> <<"R", "o", "l", "e", "-", "A", "R", "N">>,
     externalId |-> <<"E", "x", "t", "e", "r", "n", "a", "l", "_", "I", "d">>,
     ssoStartUrl |-> <<"S", "S", "O", "-", "S", "t", "a", "r", "t", "_", "U", "r", "l">>,
     ssoAccountId |-> <<"S", "s", "o", "_", "A", "c", "c", "o", "u", "n", "t", "-", "I", "D">>,
     ssoRoleName |-> <<"S", "S", "O", "_", "R", "o", "l", "e", "-", "N", "a", "m", "e">>]]

\* What a section of a config file may say; <<>> for a key it does not have
ConfigSections ==
  [style : DOMAIN KeySpelling,
   ssoStartUrl : {<<>>, START_URL},
   ssoAccountId : {<<>>, ACC1},
   roleArn : {<<>>, ROLE_ARN},
   region : {<<>>, US_WEST_2}]

ConfigLine(section, field, value) ==
  IF value = <<>> THEN <<>>
  ELSE <<KeySpelling[section.style][field] \o <<" ", "=", " ">> \o value>>

\* The text of the file that holds the section: a role name comes with the
\* start URL, an external id with the role ARN
ConfigText(section) ==
  Join(<<<<"[", "p", "r", "o", "f", "i", "l", "e", " ", "p", "]">>>>
       \o ConfigLine(section, "ssoStartUrl", section.ssoStartUrl)
       \o ConfigLine(section, "ssoRoleName",
                     IF section.ssoStartUrl = <<>> THEN <<>>
                     ELSE <<"A", "d", "m", "i", "n">>)
       \o ConfigLine(section, "roleArn", section.roleArn)
       \o ConfigLine(section, "externalId",
                     IF section.roleArn = <<>> THEN <<>> ELSE <<"x", "1">>)
       \o ConfigLine(section, "ssoAccountId", section.ssoAccountId)
       \o ConfigLine(section, "region", section.region),
       "\n")

InitFormats ==
  /\ local \in {None, Some(EarlierDocument)}
  /\ popupAccounts = <<>>
  /\ editingAccount = None
  /\ showForm = FALSE
  /\ isLoading = TRUE
  /\ nextUuid = Len(getAccounts(local))
  /\ now \in 1..MaxTime
  /\ lastOp = [op |-> "init", out |-> <<>>]
  /\ popupTasks = <<>>
  /\ bgTask = Idle
  /\ begun = 0
  /\ blob = <<>>
  /\ passphrase = <<>>
  /\ outcome = <<>>
  /\ encryptCalls = <<>>
  /\ BrowserIdle

NextFormats ==
  \/ \E includeCredentials \in BOOLEAN : ExportAccountsToCSV(includeCredentials)
  \/ \E csvContent \in CsvHeaderInputs : ImportAccountsFromCSV(csvContent)
  \/ \E section \in ConfigSections : ImportFromAWSConfig(ConfigText(section))

SpecFormats == InitFormats /\ [][NextFormats]_vars

\* The values of a profile under the seven columns of the export
ColumnValues(account) ==
  <<account.name,
    account.accountId,
    account.authType,
    account.defaultRegion,
    IF IsSome(account.color) THEN account.color[1] ELSE <<>>,
    Join(IF IsSome(account.tags) THEN account.tags[1] ELSE <<>>, ";"),
    IF IsSome(account.iamCredentials)
    THEN account.iamCredentials[1].username ELSE <<>>>>

\* The line of the k-th stored profile in the text of an export without the
\* password column
ExportedRow(k) == Join(CsvRow(storedAccounts[k], FALSE), ",")

\* C18: in the text exportAccountsToCSV returns (here without the password
\* column) the row of every stored profile tokenizes back to as many fields
\* as the header has, and the fields are the profile's values: a value of
\* any column that holds a comma, a quote or a newline is quoted.
C18_EveryColumnIsQuoted ==
  (/\ lastOp.op = "exportAccountsToCSV"
   /\ lastOp.out = exportAccountsToCSV(storedAccounts, FALSE))
    => \A k \in 1..Len(storedAccounts) :
         /\ Len(parseCSVLine(ExportedRow(k))) = Len(CsvHeaders(FALSE))
         /\ parseCSVLine(ExportedRow(k)) = ColumnValues(storedAccounts[k])

\* The names of the account id column, in lower case
IdColumnNames ==
  {<<"a", "c", "c", "o", "u", "n", "t", "i", "d">>,
   <<"a", "c", "c", "o", "u", "n", "t", "_", "i", "d">>,
   <<"a", "w", "s", " ", "a", "c", "c", "o", "u", "n", "t", " ", "i", "d">>}

\* The account id of every data line of a CSV text, read from the column
\* whose header is one of the names whatever its case and place; the empty
\* text when there is no such column or the line ends before it
ResolvedIds(csvContent) ==
  LET lines == Split(Trim(csvContent), "\n")
      first == parseCSVLine(lines[1])
      columns == {h \in 1..Len(first) :
                    Trim(ToLowerCase(first[h])) \in IdColumnNames}
      column == CHOOSE h \in columns : TRUE
  IN [r \in 1..(Len(lines) - 1) |->
        IF columns = {} \/ Len(parseCSVLine(lines[r + 1])) < column
        THEN <<>>
        ELSE parseCSVLine(lines[r + 1])[column]]

EmptyIds(ids) == Cardinality({r \in 1..Len(ids) : ids[r] = <<>>})

\* C19: importAccountsFromCSV finds the account id of a line in the column
\* whose header is accountId, account_id or 'aws account id', in any case
\* and at any place. The lines that have one are appended by the rule of C2
\* in the order of the file, also those behind a line that has none; a line
\* that has none adds nothing and counts one to skipped.
C19_AccountIdColumnByHeaderName ==
  [][\A csvContent \in CsvHeaderInputs :
       (/\ lastOp'.op = "importAccountsFromCSV"
        /\ ImportAccountsFromCSV(csvContent))
         => LET ids == ResolvedIds(csvContent)
                before == AccountIdsOf(storedAccounts)
                appended == AppendedIds(before, FilterNonEmpty(ids))
            IN /\ AccountIdsOf(storedAccounts') = before \o appended
               /\ lastOp'.out.imported = Len(appended)
               /\ lastOp'.out.skipped
                    = EmptyIds(ids)
                      + (Len(FilterNonEmpty(ids)) - Len(appended))]_vars

\* The import of a file whose first column is ACCOUNT_ID, whose first line
\* has no account id and whose second line has one
C19_Witness ==
  /\ lastOp.op = "importAccountsFromCSV"
  /\ lastOp.out.imported = 1
  /\ lastOp.out.skipped = 1
  /\ Len(storedAccounts) = 1
  /\ storedAccounts[1].name = <<"Q">>
  /\ storedAccounts[1].accountId = ACC2

\* The profile a config import appended last
Imported == storedAccounts'[Len(storedAccounts')]

\* The account id a section carries: the one it names, or else the one in
\* its role ARN
SectionAccountId(section) ==
  IF section.ssoAccountId # <<>> THEN section.ssoAccountId
  ELSE IF section.roleArn # <<>> THEN ACC2 ELSE <<>>

\* C20: a section that carries an account id not yet stored is imported, and
\* a profile imported from a config section has authType sso when the
\* section has an SSO start URL, otherwise assume-role when it has a role
\* ARN, otherwise iam. With a start URL it carries an ssoConfig of the
\* section's start URL, account id and role name; with authType assume-role
\* it carries an assumeRoleConfig of the role ARN and the external id; its
\* defaultRegion is the region the section names. The keys are recognized
\* written in lower case with underscores and in mixed case with hyphens.
C20_ConfigSectionToProfile ==
  [][\A section \in ConfigSections :
       (/\ lastOp'.op = "importFromAWSConfig"
        /\ SectionAccountId(section) # <<>>
        /\ SectionAccountId(section) \notin StoredAccountIds(storedAccounts)
        /\ ImportFromAWSConfig(ConfigText(section)))
         => /\ lastOp'.out.imported = 1
            /\ Imported.accountId = SectionAccountId(section)
            /\ Imported.authType
                 = IF section.ssoStartUrl # <<>> THEN SSO
                   ELSE IF section.roleArn # <<>> THEN ASSUME_ROLE ELSE IAM
            /\ Imported.authType = SSO
                 => /\ IsSome(Imported.ssoConfig)
                    /\ Imported.ssoConfig[1].startUrl = section.ssoStartUrl
                    /\ Imported.ssoConfig[1].accountId = Imported.accountId
                    /\ Imported.ssoConfig[1].roleName = <<"A", "d", "m", "i", "n">>
            /\ Imported.authType = ASSUME_ROLE
                 => /\ IsSome(Imported.assumeRoleConfig)
                    /\ Imported.assumeRoleConfig[1].roleArn = section.roleArn
                    /\ Imported.assumeRoleConfig[1].externalId
                         = Some(<<"x", "1">>)
            /\ section.region # <<>>
                 => Imported.defaultRegion = section.region]_vars

\* A section written in mixed case with hyphens, with a start URL, an
\* account id and a region, has been imported as an sso profile
C20_Witness ==
  /\ lastOp.op = "importFromAWSConfig"
  /\ lastOp.out.imported = 1
  /\ \E section \in ConfigSections :
       /\ section.style = "mixed"
       /\ section.ssoStartUrl # <<>>
       /\ section.region # <<>>
       /\ importFromAWSConfig(EmptyDocument, ConfigText(section), 0, now)
            .data.accounts
            = storedAccounts
  /\ storedAccounts[1].authType = SSO
  /\ storedAccounts[1].defaultRegion = US_WEST_2

----------------------------------------------------------------------------
(* The pure functions, each applied once to an input drawn from a bounded
   set. lastOp holds the function applied, its input and what it
   returned. *)

MaxSections == 2

\* What the lines of a section of a config file say
SectionKinds ==
  {"sso", "arn", "ssoThenArn", "arnThenSso", "region", "badArn", "otherKey"}

SsoIdLine == <<"s", "s", "o", "_", "a", "c", "c", "o", "u", "n", "t", "_", "i", "d", " ", "=", " ", "1", "1", "1", "1", "1", "1", "1", "1", "1", "1", "1", "1">>

ArnLine == <<"r", "o", "l", "e", "_", "a", "r", "n", " ", "=", " ", "a", "r", "n", ":", "a", "w", "s", ":", "i", "a", "m", ":", ":", "2", "2", "2", "2", "2", "2", "2", "2", "2", "2", "2", "2", ":", "r", "o", "l", "e", "/", "A">>

SectionBody(kind) ==
  CASE kind = "sso" -> <<SsoIdLine>>
    [] kind = "arn" -> <<ArnLine>>
    [] kind = "ssoThenArn" -> <<SsoIdLine, ArnLine>>
    [] kind = "arnThenSso" -> <<ArnLine, SsoIdLine>>
    [] kind = "region" -> <<<<"r", "e", "g", "i", "o", "n", " ", "=", " ", "e", "u", "-", "w", "e", "s", "t", "-", "1">>>>
    [] kind = "badArn" -> <<<<"r", "o", "l", "e", "_", "a", "r", "n", " ", "=", " ", "a", "r", "n", ":", "a", "w", "s", ":", "i", "a", "m", ":", ":", "1", "2", ":", "r", "o", "l", "e", "/", "A">>>>
    [] kind = "otherKey" -> <<<<"o", "u", "t", "p", "u", "t", " ", "=", " ", "j", "s", "o", "n">>, SsoIdLine>>

\* A config file: its sections in order, and whether it has lines around
\* them that are no part of a section
ConfigFiles ==
  [sections : UNION {[1..n -> SectionKinds] : n \in 0..MaxSections},
   noisy : BOOLEAN]

SectionName(i) == <<"p", <<"1", "2", "3", "4", "5", "6", "7", "8", "9">>[i]>>

\* The first section opens with [profile p1], the next with [p2]. A noisy
\* file starts with a key = value line, an empty line and a comment, and
\* has an empty line and a commented-out key behind every section header.
SectionLines(file, i) ==
  <<IF i = 1 THEN <<"[", "p", "r", "o", "f", "i", "l", "e", " ", "p", "1", "]">>
    ELSE <<"[">> \o SectionName(i) \o <<"]">>>>
  \o (IF file.noisy
      THEN <<<<>>, <<" ", " ", "#", " ", "s", "s", "o", "_", "a", "c", "c", "o", "u", "n", "t", "_", "i", "d", " ", "=", " ", "4", "4", "4", "4", "4", "4", "4", "4", "4", "4", "4", "4">>>>
      ELSE <<>>)
  \o SectionBody(file.sections[i])

RECURSIVE LinesFrom(_, _)
LinesFrom(file, i) ==
  IF i > Len(file.sections) THEN <<>>
  ELSE SectionLines(file, i) \o LinesFrom(file, i + 1)

ConfigFileText(file) ==
  Join((IF file.noisy
        THEN <<<<"s", "s", "o", "_", "a", "c", "c", "o", "u", "n", "t", "_", "i", "d", " ", "=", " ", "3", "3", "3", "3", "3", "3", "3", "3", "3", "3", "3", "3">>, <<" ">>, <<"#", " ", "c">>>>
        ELSE <<>>)
       \o LinesFrom(file, 1),
       "\n")

InitPure ==
  /\ local = None
  /\ popupAccounts = <<>>
  /\ editingAccount = None
  /\ showForm = FALSE
  /\ isLoading = TRUE
  /\ nextUuid = 0
  /\ now \in 1..MaxTime
  /\ lastOp = [op |-> "init", out |-> <<>>]
  /\ popupTasks = <<>>
  /\ bgTask = Idle
  /\ begun = 0
  /\ blob = <<>>
  /\ passphrase = <<>>
  /\ outcome = <<>>
  /\ encryptCalls = <<>>
  /\ BrowserIdle

\* No function has been applied yet
NotCalled == lastOp.op = "init"

\* parseAWSConfig on the text of a file, and what importFromAWSConfig then
\* puts into a new store
ParseAWSConfig(file) ==
  /\ NotCalled
  /\ lastOp' = [op |-> "parseAWSConfig",
                in |-> file,
                out |-> parseAWSConfig(ConfigFileText(file)),
                stored |-> importFromAWSConfig(EmptyDocument,
                                               ConfigFileText(file), 0, now)
                             .data.accounts]
  /\ UNCHANGED <<local, popupVars, nextUuid, now, raceVars, decryptVars, browserVars>>

MaxBytes == 3

LARGE_LENGTH == 1000

\* Byte sequences: every single byte, the sequences of up to MaxBytes bytes
\* of the lowest, the highest and two other values, and the sequences of
\* the test 'should handle large data' with their two successors in length
ByteSequences ==
  {<<>>}
  \cup {<<b>> : b \in 0..255}
  \cup UNION {[1..n -> {0, 72, 128, 255}] : n \in 2..MaxBytes}
  \cup {[i \in 1..n |-> (i - 1) % 256] :
          n \in LARGE_LENGTH..(LARGE_LENGTH + 2)}

\* Texts handed to base64ToArrayBuffer that no encoder wrote
Base64Texts ==
  {<<"n", "o", "t", " ", "v", "a", "l", "i", "d", " ", "b", "a", "s", "e", "6", "4", "!", "!", "!">>,
   <<"!", "!", "!", "!">>,
   <<"S", "G", "V", "$", "b", "G", "8", "=">>,
   <<"S", "G", "V", "s", "b", "G", "8", "=">>,
   <<"S", "G", "V", "s", "b", "G", "8">>,
   <<"S", "G", "V", "s", " ", "b", "G", "8", "=">>,
   <<"A">>,
   <<>>}

\* arrayBufferToBase64 on a byte sequence, then base64ToArrayBuffer on the
\* text it returned
EncodeBase64(buffer) ==
  /\ NotCalled
  /\ lastOp' = [op |-> "arrayBufferToBase64",
                in |-> buffer,
                out |-> arrayBufferToBase64(buffer),
                back |-> base64ToArrayBuffer(arrayBufferToBase64(buffer))]
  /\ UNCHANGED <<local, popupVars, nextUuid, now, raceVars, decryptVars, browserVars>>

DecodeBase64(base64) ==
  /\ NotCalled
  /\ lastOp' = [op |-> "base64ToArrayBuffer",
                in |-> base64,
                out |-> base64ToArrayBuffer(base64)]
  /\ UNCHANGED <<local, popupVars, nextUuid, now, raceVars, decryptVars, browserVars>>

(* popup/store.ts selectors *)

\* String.prototype.includes
Includes(s, sub) ==
  \E i \in 0..(Len(s) - Len(sub)) : SubSeq(s, i + 1, i + Len(sub)) = sub

\* The predicate of accounts.filter in useFilteredAccounts
MatchesQuery(account, query) ==
  \/ Includes(ToLowerCase(account.name), query)
  \/ Includes(account.accountId, query)
  \/ /\ IsSome(account.clientName)
     /\ Includes(ToLowerCase(account.clientName[1]), query)
  \/ /\ IsSome(account.tags)
     /\ \E t \in 1..Len(account.tags[1]) :
          Includes(ToLowerCase(account.tags[1][t]), query)

useFilteredAccounts(accounts, searchQuery) ==
  LET query == Trim(ToLowerCase(searchQuery))
      Matches(account) == MatchesQuery(account, query)
  IN IF query = <<>> THEN accounts ELSE SelectSeq(accounts, Matches)

FAVORITES == <<"F", "a", "v", "o", "r", "i", "t", "e", "s">>

OTHER_CLIENT == <<"O", "t", "h", "e", "r">>

\* grouped.get(client): the position of the key in the map, 0 when absent
GroupIndex(grouped, client) ==
  IF \E g \in 1..Len(grouped) : grouped[g].key = client
  THEN CHOOSE g \in 1..Len(grouped) : grouped[g].key = client
  ELSE 0

\* The loop of useGroupedAccounts over the accounts from position i on; the
\* map is the sequence of its entries in insertion order
RECURSIVE GroupLoop(_, _, _)
GroupLoop(accounts, i, grouped) ==
  IF i > Len(accounts) THEN grouped
  ELSE LET account == accounts[i]
           client == OrElse(account.clientName, OTHER_CLIENT)
           g == GroupIndex(grouped, client)
       IN IF IsSome(account.isFavorite) /\ account.isFavorite[1]
          THEN GroupLoop(accounts, i + 1, grouped)
          ELSE IF g = 0
          THEN GroupLoop(accounts, i + 1,
                         Append(grouped, [key |-> client,
                                          accounts |-> <<account>>]))
          ELSE GroupLoop(accounts, i + 1,
                         [grouped EXCEPT ![g].accounts = Append(@, account)])

useGroupedAccounts(listed, searchQuery) ==
  LET accounts == useFilteredAccounts(listed, searchQuery)
      IsFavorite(a) == IsSome(a.isFavorite) /\ a.isFavorite[1]
      favorites == SelectSeq(accounts, IsFavorite)
  IN GroupLoop(accounts, 1,
               IF Len(favorites) > 0
               THEN <<[key |-> FAVORITES, accounts |-> favorites]>>
               ELSE <<>>)

MaxListed == 3

\* Profiles the popup may list: entered through the form with and without a
\* client and tags, marked favorite or not, one with the client name
\* Favorites, and one as importAccountsFromCSV stores it from a row whose
\* account id holds letters
ListedProfiles ==
  {[JsonIamObject EXCEPT !.id = Uuid(1), !.name = <<"P", "r", "o", "d", " ", "A", "p", "i">>,
                         !.clientName = Some(<<"A", "c", "m", "e">>),
                         !.tags = Some(<<<<"w", "e", "b">>, <<"C", "o", "r", "e">>>>),
                         !.isFavorite = Some(TRUE)],
   [JsonIamObject EXCEPT !.id = Uuid(2), !.name = <<"d", "e", "v">>,
                         !.accountId = ACC2],
   [JsonIamObject EXCEPT !.id = Uuid(3), !.name = <<"S", "t", "a", "g", "e">>,
                         !.clientName = Some(<<"A", "c", "m", "e">>),
                         !.tags = Some(<<<<"w", "e", "b">>>>),
                         !.isFavorite = Some(FALSE)],
   [JsonIamObject EXCEPT !.id = Uuid(4), !.name = <<"P", "i", "n", "n", "e", "d">>,
                         !.accountId = ACC2,
                         !.clientName = Some(FAVORITES)],
   importAccountsFromCSV(EmptyDocument,
                         <<"n", "a", "m", "e", ",", "a", "c", "c", "o", "u", "n", "t", "I", "d">> \o <<"\n">>
                           \o <<"O", "p", "s", ",", "1", "2", "A", "B">>,
                         4, 0).data.accounts[1]}

\* The lists of up to MaxListed different profiles, in every order
ListedAccounts ==
  {l \in UNION {[1..n -> ListedProfiles] : n \in 0..MaxListed} :
     \A i, j \in 1..Len(l) : i # j => l[i] # l[j]}

\* What the search box may hold
SearchQueries ==
  {<<>>,
   <<" ", " ">>,
   <<"P", "R", "O", "D">>,
   <<" ", "a", "p", "i", " ">>,
   <<"1", "1", "1", "1">>,
   <<"a", "c", "m", "e">>,
   <<"c", "o", "r", "e">>,
   <<"a", "b">>,
   <<"z", "z">>}

UseFilteredAccounts(accounts, searchQuery) ==
  /\ NotCalled
  /\ lastOp' = [op |-> "useFilteredAccounts",
                in |-> [accounts |-> accounts, searchQuery |-> searchQuery],
                out |-> useFilteredAccounts(accounts, searchQuery)]
  /\ UNCHANGED <<local, popupVars, nextUuid, now, raceVars, decryptVars, browserVars>>

UseGroupedAccounts(accounts, searchQuery) ==
  /\ NotCalled
  /\ lastOp' = [op |-> "useGroupedAccounts",
                in |-> useFilteredAccounts(accounts, searchQuery),
                out |-> useGroupedAccounts(accounts, searchQuery)]
  /\ UNCHANGED <<local, popupVars, nextUuid, now, raceVars, decryptVars, browserVars>>

MaxFields == 3

MaxLineLen == 4

\* Values of a CSV row: empty, plain, padded with white space, and with
\* each character that makes escapeCSV quote the value
CsvValues ==
  {<<>>,
   <<"a">>,
   <<" ", "a", " ">>,
   <<"a", ",", "b">>,
   <<"a", "\"", "b">>,
   <<"a", "\n", "b">>,
   <<"\"">>,
   <<",">>,
   <<" ", "\"", "x">>,
   <<"\"", "\"">>}

CsvValueLists == UNION {[1..n -> CsvValues] : n \in 1..MaxFields}

\* Lines a file may hold: every text of up to MaxLineLen characters over a
\* letter, the comma, the quote and the space, and the lines of the tests
CsvLines ==
  UNION {[1..n -> {"a", ",", "\"", " "}] : n \in 0..MaxLineLen}
  \cup {<<"n", "a", "m", "e", ",", "1", "2", "3", "4", "5", "6", "7", "8", "9", "0", "1", "2", ",", "i", "a", "m", ",", "u", "s", "-", "e", "a", "s", "t", "-", "1">>,
        <<"\"", "A", "c", "c", "o", "u", "n", "t", " ", "N", "a", "m", "e", "\"", ",", "1", "2", "3", "4", "5", "6", "7", "8", "9", "0", "1", "2", ",", "i", "a", "m", ",", "u", "s", "-", "e", "a", "s", "t", "-", "1">>,
        <<"\"", "A", "c", "c", "o", "u", "n", "t", ",", " ", "N", "a", "m", "e", "\"", ",", "1", "2", "3", "4", "5", "6", "7", "8", "9", "0", "1", "2", ",", "i", "a", "m", ",", "u", "s", "-", "e", "a", "s", "t", "-", "1">>,
        <<"\"", "A", "c", "c", "o", "u", "n", "t", " ", "\"", "\"", "N", "a", "m", "e", "\"", "\"", "\"", ",", "1", "2", "3", "4", "5", "6", "7", "8", "9", "0", "1", "2", ",", "i", "a", "m", ",", "u", "s", "-", "e", "a", "s", "t", "-", "1">>,
        <<"n", "a", "m", "e", ",", "1", "2", "3", "4", "5", "6", "7", "8", "9", "0", "1", "2", ",", ",", "u", "s", "-", "e", "a", "s", "t", "-", "1", ",">>,
        <<" ", " ", "n", "a", "m", "e", " ", " ", ",", " ", " ", "1", "2", "3", "4", "5", "6", "7", "8", "9", "0", "1", "2", " ", " ", ",", " ", " ", "i", "a", "m", " ", " ">>}

\* A row written as exportAccountsToCSV writes one: each value through
\* escapeCSV, joined by commas; then tokenized
ParseEscaped(values) ==
  /\ NotCalled
  /\ LET line == Join([i \in 1..Len(values) |-> escapeCSV(values[i])], ",")
     IN lastOp' = [op |-> "escapeCSV",
                   in |-> values,
                   line |-> line,
                   out |-> parseCSVLine(line)]
  /\ UNCHANGED <<local, popupVars, nextUuid, now, raceVars, decryptVars, browserVars>>

ParseCSVLine(line) ==
  /\ NotCalled
  /\ lastOp' = [op |-> "parseCSVLine",
                in |-> line,
                out |-> parseCSVLine(line)]
  /\ UNCHANGED <<local, popupVars, nextUuid, now, raceVars, decryptVars, browserVars>>

NextPure ==
  \/ \E file \in ConfigFiles : ParseAWSConfig(file)
  \/ \E values \in CsvValueLists : ParseEscaped(values)
  \/ \E line \in CsvLines : ParseCSVLine(line)
  \/ \E accounts \in ListedAccounts, searchQuery \in SearchQueries :
       UseFilteredAccounts(accounts, searchQuery)
  \/ \E accounts \in ListedAccounts, searchQuery \in SearchQueries :
       UseGroupedAccounts(accounts, searchQuery)
  \/ \E buffer \in ByteSequences : EncodeBase64(buffer)
  \/ \E base64 \in Base64Texts : DecodeBase64(base64)

SpecPure == InitPure /\ [][NextPure]_vars

\* The account id a section of that kind resolves to: the sso_account_id
\* or the digits of the role ARN, the later line when it has both
ResolvedId(kind) ==
  CASE kind \in {"sso", "arnThenSso", "otherKey"} -> ACC1
    [] kind \in {"arn", "ssoThenArn"} -> ACC2
    [] OTHER -> <<>>

\* The names and account ids of the sections from the i-th on that resolve
\* to an account id, in the order of the file
RECURSIVE ResolvableFrom(_, _)
ResolvableFrom(file, i) ==
  IF i > Len(file.sections) THEN <<>>
  ELSE (IF ResolvedId(file.sections[i]) # <<>>
        THEN <<[name |-> SectionName(i),
                accountId |-> ResolvedId(file.sections[i])]>>
        ELSE <<>>)
       \o ResolvableFrom(file, i + 1)

NamesAndIds(profiles) ==
  [i \in 1..Len(profiles) |->
     [name |-> profiles[i].name, accountId |-> profiles[i].accountId]]

\* C21: parseAWSConfig returns, in the order of the file, one profile for
\* each section that has an sso_account_id or a role ARN with twelve digits,
\* whichever of the two keys comes first, the last section of the file
\* included; a section without one is not returned and is not stored by the
\* import; empty lines, comment lines, keys it does not know and key = value
\* lines in front of the first header add nothing.
C21_SectionsWithAccountIdInOrder ==
  lastOp.op = "parseAWSConfig"
    => /\ NamesAndIds(lastOp.out) = ResolvableFrom(lastOp.in, 1)
       /\ \A i \in 1..Len(lastOp.stored) :
            \E j \in 1..Len(lastOp.out) :
              /\ lastOp.stored[i].name = lastOp.out[j].name
              /\ lastOp.stored[i].accountId = lastOp.out[j].accountId

\* A noisy file of a section without account id and a section that has a
\* role ARN and then an sso_account_id: the second alone is returned
C21_Witness ==
  /\ lastOp.op = "parseAWSConfig"
  /\ lastOp.in.noisy
  /\ lastOp.in.sections = <<"region", "arnThenSso">>
  /\ Len(lastOp.out) = 1
  /\ lastOp.out[1].name = SectionName(2)
  /\ Len(lastOp.stored) = 1

\* C22: the accountId of every stored profile is exactly twelve ASCII
\* digits in every reachable state, and a submit of the form that validate
\* rejects (an accountId that is not twelve digits, or an empty name) writes
\* nothing to the store.
C22_StoredAccountIdsAreTwelveDigits ==
  /\ [](\A i \in 1..Len(storedAccounts) :
          IsTwelveDigits(storedAccounts[i].accountId))
  /\ [][lastOp'.op = "submitRejected" => local' = local]_vars

\* A text with a character that is no base64 character, no padding and no
\* white space
HasForeignCharacter(text) ==
  \E i \in 1..Len(text) :
    /\ text[i] \notin Whitespace \cup {"="}
    /\ \A k \in 1..64 : Base64Alphabet[k] # text[i]

\* C23: base64ToArrayBuffer gives back the bytes arrayBufferToBase64 was
\* given, for the empty sequence, for sequences with the bytes 0 and 255 and
\* for sequences of 1000 bytes and more; the empty sequence is encoded as the
\* empty text; and base64ToArrayBuffer fails, returning no bytes, on a text
\* that holds a character outside base64.
C23_Base64RoundTrip ==
  /\ lastOp.op = "arrayBufferToBase64"
       => /\ lastOp.back.ok
          /\ lastOp.back.bytes = lastOp.in
          /\ lastOp.in = <<>> => lastOp.out = <<>>
  /\ (lastOp.op = "base64ToArrayBuffer" /\ HasForeignCharacter(lastOp.in))
       => /\ ~lastOp.out.ok
          /\ lastOp.out.bytes = <<>>

\* A sequence of more than 1000 bytes that holds the bytes 0 and 255 has
\* been encoded and decoded
C23_Witness ==
  /\ lastOp.op = "arrayBufferToBase64"
  /\ Len(lastOp.in) > LARGE_LENGTH
  /\ \E i, j \in 1..Len(lastOp.in) :
       lastOp.in[i] = 0 /\ lastOp.in[j] = 255
  /\ lastOp.back.bytes = lastOp.in

\* The number of quotes of a line before position i
QuotesBefore(line, i) == Cardinality({k \in 1..(i - 1) : line[k] = "\""})

\* The commas of a line outside quotes: those with an even number of quotes
\* before them
CommasOutsideQuotes(line) ==
  {i \in 1..Len(line) : line[i] = "," /\ QuotesBefore(line, i) % 2 = 0}

\* C24: parseCSVLine inverts escapeCSV: the values v1..vn, each through
\* escapeCSV and joined by commas, are tokenized to trim(v1)..trim(vn), so a
\* comma inside quotes does not split and a doubled quote gives one quote;
\* and every line gives one field more than it has commas outside quotes,
\* so a line ending in a comma ends with an empty field and the empty line
\* gives one empty field.
C24_ParseCSVLineInvertsEscapeCSV ==
  /\ lastOp.op = "escapeCSV"
       => lastOp.out = [i \in 1..Len(lastOp.in) |-> Trim(lastOp.in[i])]
  /\ lastOp.op = "parseCSVLine"
       => /\ Len(lastOp.out) = Cardinality(CommasOutsideQuotes(lastOp.in)) + 1
          /\ (lastOp.in # <<>> /\ lastOp.in[Len(lastOp.in)] = ","
                /\ Len(lastOp.in) \in CommasOutsideQuotes(lastOp.in))
               => lastOp.out[Len(lastOp.out)] = <<>>
          /\ lastOp.in = <<>> => lastOp.out = <<<<>>>>

\* A row of three values, one with a comma, one with a quote and one padded
\* with spaces, has been written and tokenized back to three fields
C24_Witness ==
  /\ lastOp.op = "escapeCSV"
  /\ Len(lastOp.in) = 3
  /\ \E i, j, k \in 1..3 :
       /\ IncludesChar(lastOp.in[i], ",")
       /\ IncludesChar(lastOp.in[j], "\"")
       /\ Trim(lastOp.in[k]) # lastOp.in[k]
  /\ Len(lastOp.out) = 3

\* q is a substring of text, whatever the case of either
InsensitiveSubstring(q, text) == Includes(ToLowerCase(text), ToLowerCase(q))

\* The profile matches q by its name, account id, client name or a tag
FoundBy(q, account) ==
  \/ InsensitiveSubstring(q, account.name)
  \/ InsensitiveSubstring(q, account.accountId)
  \/ IsSome(account.clientName)
       /\ InsensitiveSubstring(q, account.clientName[1])
  \/ IsSome(account.tags)
       /\ \E t \in 1..Len(account.tags[1]) :
            InsensitiveSubstring(q, account.tags[1][t])

\* The profiles of a list that match q, in the order of the list
Found(q, accounts) ==
  LET Hit(account) == FoundBy(q, account)
  IN SelectSeq(accounts, Hit)

\* C25: filtering by a query returns, in input order, exactly the profiles
\* of which the trimmed query is a case-insensitive substring of the name,
\* the account id, the client name or a tag; an empty or white-space query
\* returns the whole input; and filtering leaves the store as it is.
C25_FilterIsCaseInsensitiveSubstringMatch ==
  /\ [](lastOp.op = "useFilteredAccounts"
          => /\ Trim(lastOp.in.searchQuery) = <<>>
                  => lastOp.out = lastOp.in.accounts
             /\ Trim(lastOp.in.searchQuery) # <<>>
                  => lastOp.out = Found(Trim(lastOp.in.searchQuery),
                                        lastOp.in.accounts))
  /\ [][lastOp'.op = "useFilteredAccounts" => local' = local]_vars

MarkedFavorite(account) ==
  IsSome(account.isFavorite) /\ account.isFavorite[1]

\* The profiles of a list that are in the group, in the order of the list
InGroup(group, accounts) ==
  LET Member(account) ==
        \E k \in 1..Len(group.accounts) : group.accounts[k] = account
  IN SelectSeq(accounts, Member)

\* The position in the list of the first profile of a group
FirstSeen(group, accounts) ==
  CHOOSE i \in 1..Len(accounts) : accounts[i] = group.accounts[1]

\* C26: grouping partitions its input: every profile is in exactly one
\* group, in input order within the group. The group named Favorites exists
\* only if some profile is a favorite, is then the first group, and holds
\* exactly the favorites whatever their client name; every other profile is
\* in the group of its client name, or of Other when it has none, and those
\* groups follow in the order their first profile is seen.
C26_GroupingPartitionsWithFavoritesFirst ==
  lastOp.op = "useGroupedAccounts"
    => LET accounts == lastOp.in
           grouped == lastOp.out
           keys == [g \in 1..Len(grouped) |-> grouped[g].key]
       IN /\ \A i \in 1..Len(accounts) :
               Cardinality({<<g, k>> \in (1..Len(grouped)) \X (1..MaxListed) :
                              /\ k <= Len(grouped[g].accounts)
                              /\ grouped[g].accounts[k] = accounts[i]}) = 1
          /\ \A g \in 1..Len(grouped) :
               /\ grouped[g].accounts # <<>>
               /\ grouped[g].accounts = InGroup(grouped[g], accounts)
          /\ \A g, h \in 1..Len(grouped) : g # h => keys[g] # keys[h]
          /\ (\E g \in 1..Len(grouped) : keys[g] = FAVORITES)
               <=> (\E i \in 1..Len(accounts) : MarkedFavorite(accounts[i]))
          /\ \A g \in 1..Len(grouped) :
               keys[g] = FAVORITES
                 => /\ g = 1
                    /\ grouped[g].accounts
                         = SelectSeq(accounts, MarkedFavorite)
          /\ \A g \in 1..Len(grouped), k \in 1..MaxListed :
               (k <= Len(grouped[g].accounts)
                  /\ ~MarkedFavorite(grouped[g].accounts[k]))
                 => keys[g] = OrElse(grouped[g].accounts[k].clientName,
                                     OTHER_CLIENT)
          /\ \A g, h \in 1..Len(grouped) :
               (g < h /\ keys[g] # FAVORITES /\ keys[h] # FAVORITES)
                 => FirstSeen(grouped[g], accounts)
                      < FirstSeen(grouped[h], accounts)

----------------------------------------------------------------------------
(* Settings: shared/storage.ts, options/index.tsx *)

\* { ...a, ...b } on two objects, each a function on its keys
ObjectSpread(a, b) ==
  [k \in DOMAIN a \cup DOMAIN b |-> IF k \in DOMAIN b THEN b[k] ELSE a[k]]

getSettings(stored) == ObjectSpread(DEFAULT_SETTINGS, getStorage(stored).settings)

\* saveSettings putting the given object in the place of the stored one
saveSettings_ReplacesSettings(data, settings) ==
  [data EXCEPT !.settings = settings]

\* saveSettings: the document it writes, given the document it read
saveSettings(data, settings) ==
  [data EXCEPT !.settings = ObjectSpread(data.settings, settings)]

\* What saveSettings is given: one key, or, from handleSettingChange, the
\* whole settings object of the page with one key changed
SettingsPatches(stored) ==
  {[theme |-> "dark"],
   [getSettings(stored) EXCEPT !.showConsoleBanner = FALSE,
                               !.theme = "system"]}

\* handleSettingChange
SaveSettings(settings) ==
  /\ local' = setStorage(saveSettings(getStorage(local), settings))
  /\ lastOp' = [op |-> "saveSettings", out |-> settings]
  /\ UNCHANGED <<popupVars, nextUuid, now, raceVars, decryptVars, browserVars>>

NextSettings ==
  \/ Next
  \/ \E settings \in SettingsPatches(local) : SaveSettings(settings)

SpecSettings == InitResumed /\ [][NextSettings]_vars

\* The operations that write profiles
ProfileOps ==
  {"createAccount", "updateAccount", "removeAccount", "openConsole",
   "quickSwitch", "importAccounts", "importAccountsFromCSV",
   "importFromAWSConfig"}

\* C30: saveAccount, deleteAccount, updateLastUsed and the three imports
\* leave settings, encryptionEnabled and masterPasswordHash of the document
\* as they were; saveSettings sets the keys it is given and leaves the
\* profile list, the other settings keys, encryptionEnabled and
\* masterPasswordHash as they were.
C30_ProfilesAndSettingsAreDisjoint ==
  [][LET before == getStorage(local)
         after == getStorage(local')
     IN /\ lastOp'.op \in ProfileOps
             => /\ after.settings = before.settings
                /\ after.encryptionEnabled = before.encryptionEnabled
                /\ after.masterPasswordHash = before.masterPasswordHash
        /\ lastOp'.op = "saveSettings"
             => /\ after.accounts = before.accounts
                /\ after.encryptionEnabled = before.encryptionEnabled
                /\ after.masterPasswordHash = before.masterPasswordHash
                /\ DOMAIN after.settings = DOMAIN before.settings
                /\ \A k \in DOMAIN after.settings :
                     after.settings[k] = IF k \in DOMAIN lastOp'.out
                                         THEN lastOp'.out[k]
                                         ELSE before.settings[k]]_vars

\* A profile has been imported into a document whose settings had been
\* changed from the defaults, and the settings are the changed ones
C30_Witness ==
  /\ lastOp.op = "importFromAWSConfig"
  /\ lastOp.out.imported = 1
  /\ getStorage(local).settings.theme = "dark"
  /\ getStorage(local).settings.showConsoleBanner = FALSE

----------------------------------------------------------------------------
(* Active sessions: background/service-worker.ts, content/account-detector.ts *)

\* Map.prototype.set on a Map held as the sequence of its entries
MapSet(map, key, value) ==
  IF \E i \in 1..Len(map) : map[i].key = key
  THEN [i \in 1..Len(map) |->
          IF map[i].key = key THEN [key |-> key, value |-> value] ELSE map[i]]
  ELSE Append(map, [key |-> key, value |-> value])

\* Map.prototype.delete
MapDelete(map, key) ==
  LET Other(entry) == entry.key # key
  IN SelectSeq(map, Other)

CONSOLE_HOST == <<"c", "o", "n", "s", "o", "l", "e", ".", "a", "w", "s", ".", "a", "m", "a", "z", "o", "n", ".", "c", "o", "m">>

\* URLs a tab may show: a console page, a page elsewhere, and a page
\* elsewhere whose query names the console
CONSOLE_URL == <<"h", "t", "t", "p", "s", ":", "/", "/", "u", "s", "-", "e", "a", "s", "t", "-", "1", ".", "c", "o", "n", "s", "o", "l", "e", ".", "a", "w", "s", ".", "a", "m", "a", "z", "o", "n", ".", "c", "o", "m", "/", "e", "c", "2">>

ELSEWHERE_URL == <<"h", "t", "t", "p", "s", ":", "/", "/", "e", "x", "a", "m", "p", "l", "e", ".", "c", "o", "m", "/">>

REFERRING_URL == <<"h", "t", "t", "p", "s", ":", "/", "/", "e", "x", "a", "m", "p", "l", "e", ".", "c", "o", "m", "/", "?", "f", "r", "o", "m", "=", "c", "o", "n", "s", "o", "l", "e", ".", "a", "w", "s", ".", "a", "m", "a", "z", "o", "n", ".", "c", "o", "m">>

TabUrls == {CONSOLE_URL, ELSEWHERE_URL, REFERRING_URL}

\* The host of a URL: what stands between the scheme and the path
Hostname(url) ==
  LET start == CHOOSE i \in 1..Len(url) :
                 /\ SubSeq(url, i, i + 2) = <<":", "/", "/">>
                 /\ \A j \in 1..(i - 1) :
                      SubSeq(url, j, j + 2) # <<":", "/", "/">>
      rest == SubSeq(url, start + 3, Len(url))
      stops == {i \in 1..Len(rest) : rest[i] \in {"/", "?", "#"}}
  IN IF stops = {} THEN rest
     ELSE SubSeq(rest, 1, (CHOOSE i \in stops : \A j \in stops : i <= j) - 1)

\* The tab is open and shows a page of console.aws.amazon.com, where the
\* manifest puts the content script that detects the account
OnConsole(t) ==
  /\ tabs[t].open
  /\ \/ Hostname(tabs[t].url) = CONSOLE_HOST
     \/ EndsWith(Hostname(tabs[t].url), <<".">> \o CONSOLE_HOST)

\* The account ids a console page may show: of the stored profile and of
\* no stored profile
DetectedAccountIds == {ACC1, ACC2}

InitSessions ==
  /\ local = Some(EarlierDocument)
  /\ popupAccounts = <<>>
  /\ editingAccount = None
  /\ showForm = FALSE
  /\ isLoading = TRUE
  /\ nextUuid = 1
  /\ now \in 1..MaxTime
  /\ lastOp = [op |-> "init", out |-> <<>>]
  /\ popupTasks = <<>>
  /\ bgTask = Idle
  /\ begun = 0
  /\ blob = <<>>
  /\ passphrase = <<>>
  /\ outcome = <<>>
  /\ encryptCalls = <<>>
  /\ BrowserIdle

\* A tab, the next the browser has not used yet, is opened on a URL
CreateTab(t, url) ==
  /\ ~tabs[t].open /\ ~tabs[t].closed
  /\ \A u \in 1..(t - 1) : tabs[u].open \/ tabs[u].closed
  /\ tabs' = [tabs EXCEPT ![t] = [open |-> TRUE, closed |-> FALSE,
                                  url |-> url]]
  /\ lastOp' = [op |-> "createTab", out |-> t]
  /\ UNCHANGED <<local, popupVars, nextUuid, now, raceVars, decryptVars,
                 activeSessions, detections, session, pages, opens>>

\* The console page of tab t sends ACCOUNT_DETECTED; handleMessage runs up
\* to its await of getAccounts
AccountDetected(t, accountId) ==
  /\ OnConsole(t)
  /\ detections' = detections \cup {[tabId |-> t, accountId |-> accountId]}
  /\ lastOp' = [op |-> "accountDetectedReceived", out |-> t]
  /\ UNCHANGED <<local, popupVars, nextUuid, now, raceVars, decryptVars,
                 activeSessions, tabs, session, pages, opens>>

\* getAccounts settles and the handler of ACCOUNT_DETECTED runs to its end
AccountDetectedResume(d) ==
  LET accounts == getAccounts(local)
      found == \E i \in 1..Len(accounts) : accounts[i].accountId = d.accountId
      account == accounts[CHOOSE i \in 1..Len(accounts) :
                            /\ accounts[i].accountId = d.accountId
                            /\ \A j \in 1..(i - 1) :
                                 accounts[j].accountId # d.accountId]
      result == updateLastUsed(getStorage(local), account.id, now)
  IN /\ d \in detections
     /\ detections' = detections \ {d}
     /\ activeSessions' =
          IF found
          THEN MapSet(activeSessions, d.tabId,
                      [tabId |-> d.tabId, accountId |-> account.accountId,
                       accountName |-> account.name, startedAt |-> now,
                       lastActivity |-> now])
          ELSE activeSessions
     /\ local' = IF found /\ result.writes
                 THEN setStorage(result.data) ELSE local
     /\ lastOp' = [op |-> "accountDetected",
                   out |-> [tabId |-> d.tabId, accountId |-> d.accountId]]
     /\ UNCHANGED <<popupVars, nextUuid, now, raceVars, decryptVars, tabs,
                    session, pages, opens>>

\* chrome.tabs.onRemoved
TabRemoved(t) ==
  /\ tabs[t].open
  /\ tabs' = [tabs EXCEPT ![t].open = FALSE, ![t].closed = TRUE]
  /\ activeSessions' = MapDelete(activeSessions, t)
  /\ lastOp' = [op |-> "tabRemoved", out |-> t]
  /\ UNCHANGED <<local, popupVars, nextUuid, now, raceVars, decryptVars,
                 detections, session, pages, opens>>

\* chrome.tabs.onUpdated with changeInfo.url
TabUpdated(t, url) ==
  /\ tabs[t].open
  /\ tabs[t].url # url
  /\ tabs' = [tabs EXCEPT ![t].url = url]
  /\ activeSessions' = IF ~Includes(url, CONSOLE_HOST)
                       THEN MapDelete(activeSessions, t)
                       ELSE activeSessions
  /\ lastOp' = [op |-> "tabUpdated", out |-> t]
  /\ UNCHANGED <<local, popupVars, nextUuid, now, raceVars, decryptVars,
                 detections, session, pages, opens>>

NextSessions ==
  \/ \E t \in 1..MaxTabs, url \in TabUrls : CreateTab(t, url)
  \/ \E t \in 1..MaxTabs, accountId \in DetectedAccountIds :
       AccountDetected(t, accountId)
  \/ \E d \in detections : AccountDetectedResume(d)
  \/ \E t \in 1..MaxTabs : TabRemoved(t)
  \/ \E t \in 1..MaxTabs, url \in TabUrls : TabUpdated(t, url)

SpecSessions == InitSessions /\ [][NextSessions]_vars

SessionKeys(map) == {map[i].key : i \in 1..Len(map)}

\* C27: the session map holds an entry for tab t only while t is an open
\* tab on the console: every entry's key is its tabId, its tab is open and
\* shows a console page (so none is left once the tab is closed or has gone
\* elsewhere, also when a detection from the tab was awaiting the store at
\* that moment), and an entry is put in only by an ACCOUNT_DETECTED message
\* from that tab whose account id is in the store.
C27_SessionOnlyWhileTabOnConsole ==
  /\ [](\A i \in 1..Len(activeSessions) :
          /\ activeSessions[i].value.tabId = activeSessions[i].key
          /\ OnConsole(activeSessions[i].key))
  /\ [][\A i \in 1..Len(activeSessions') :
          (\/ activeSessions'[i].key \notin SessionKeys(activeSessions)
           \/ \E k \in 1..Len(activeSessions) :
                /\ activeSessions[k].key = activeSessions'[i].key
                /\ activeSessions[k] # activeSessions'[i])
            => /\ lastOp'.op = "accountDetected"
               /\ lastOp'.out.tabId = activeSessions'[i].key
               /\ \E a \in 1..Len(storedAccounts) :
                    storedAccounts[a].accountId = lastOp'.out.accountId]_vars

----------------------------------------------------------------------------
(* Automatic sign-in: background/service-worker.ts, content/login-helper.ts *)

MaxOpens == 2

MaxTicks == 1

PENDING_MAX_AGE == 30000

SIGNIN_HOST == <<"s", "i", "g", "n", "i", "n", ".", "a", "w", "s", ".", "a", "m", "a", "z", "o", "n", ".", "c", "o", "m">>

\* Two profiles that sign in with a user name and a password, and one that
\* signs in through a portal
SecondIamForm ==
  [IamForm EXCEPT !.name = <<"T", "e", "s", "t">>, !.accountId = ACC2,
                  !.iamUsername = <<"e", "v", "e">>,
                  !.iamPassword = <<"x", "y">>]

SignInDocument ==
  saveAccount(
    saveAccount(
      saveAccount(EmptyDocument,
                  FormAccount(IamForm, None, CredSalt, CredIv, Uuid(1), 0)),
      FormAccount(SecondIamForm, None, CredSalt, CredIv, Uuid(2), 0)),
    FormAccount(SsoForm, None, CredSalt, CredIv, Uuid(3), 0))

InitSignIn ==
  /\ local = Some(SignInDocument)
  /\ popupAccounts = <<>>
  /\ editingAccount = None
  /\ showForm = FALSE
  /\ isLoading = TRUE
  /\ nextUuid = 3
  /\ now \in 1..MaxTime
  /\ lastOp = [op |-> "init", out |-> <<>>]
  /\ popupTasks = <<>>
  /\ bgTask = Idle
  /\ begun = 0
  /\ blob = <<>>
  /\ passphrase = <<>>
  /\ outcome = <<>>
  /\ encryptCalls = <<>>
  /\ BrowserIdle

\* The tab chrome.tabs.create opens: the first the browser has not used
FreeTabs == {t \in 1..MaxTabs : ~tabs[t].open /\ ~tabs[t].closed}

NewTab == CHOOSE t \in FreeTabs : \A u \in FreeTabs : t <= u

\* The handlers that have still to call chrome.tabs.create
AwaitingSet == {k \in 1..Len(opens) : opens[k].pc = "set"}

SignInUrl(account) ==
  <<"h", "t", "t", "p", "s", ":", "/", "/">> \o account.accountId \o <<".">> \o SIGNIN_HOST
    \o <<"/", "c", "o", "n", "s", "o", "l", "e">>

ConsoleHomeUrl(region) ==
  <<"h", "t", "t", "p", "s", ":", "/", "/">> \o region \o <<".">> \o CONSOLE_HOST
    \o <<"/", "c", "o", "n", "s", "o", "l", "e", "/", "h", "o", "m", "e", "?", "r", "e", "g", "i", "o", "n", "=">> \o region

\* The body of OPEN_CONSOLE and of quick-switch once the profile is at hand,
\* up to the first await after it
BeginOpen(account) ==
  IF account.authType = SSO /\ IsSome(account.ssoConfig)
  THEN /\ tabs' = [tabs EXCEPT ![NewTab] =
                     [open |-> TRUE, closed |-> FALSE,
                      url |-> account.ssoConfig[1].startUrl]]
       /\ opens' = Append(opens, [pc |-> "lastUsed", account |-> account.id,
                                  pending |-> <<>>, tab |-> NewTab])
  ELSE IF /\ account.authType = IAM
          /\ IsSome(account.iamCredentials)
          /\ account.iamCredentials[1].username # <<>>
  THEN /\ opens' = Append(opens,
                          [pc |-> "set", account |-> account.id,
                           pending |-> Some([accountId |-> account.id,
                                             awsAccountId |-> account.accountId,
                                             timestamp |-> now]),
                           tab |-> 0])
       /\ UNCHANGED tabs
  ELSE /\ tabs' = [tabs EXCEPT ![NewTab] =
                     [open |-> TRUE, closed |-> FALSE,
                      url |-> ConsoleHomeUrl(account.defaultRegion)]]
       /\ opens' = Append(opens, [pc |-> "lastUsed", account |-> account.id,
                                  pending |-> <<>>, tab |-> NewTab])

\* handleMessage, case OPEN_CONSOLE, from getAccount settling to the next
\* await
OpenConsoleBegin(accountId) ==
  LET account == getAccount(local, accountId)
  IN /\ Len(opens) < MaxOpens
     /\ Cardinality(FreeTabs) > Cardinality(AwaitingSet)
     /\ IF IsSome(account)
        THEN BeginOpen(account[1])
        ELSE /\ opens' = Append(opens, [pc |-> "done", account |-> accountId,
                                        pending |-> <<>>, tab |-> 0])
             /\ UNCHANGED tabs
     /\ lastOp' = [op |-> "openConsoleBegin", out |-> accountId]
     /\ UNCHANGED <<local, popupVars, nextUuid, now, raceVars, decryptVars,
                    activeSessions, detections, session, pages>>

\* commands.onCommand quick-switch-<index>, from getAccounts settling to the
\* next await
QuickSwitchBegin(index) ==
  LET accounts == getAccounts(local)
  IN /\ Len(opens) < MaxOpens
     /\ Cardinality(FreeTabs) > Cardinality(AwaitingSet)
     /\ IF index <= Len(accounts)
        THEN BeginOpen(accounts[index])
        ELSE /\ opens' = Append(opens, [pc |-> "done", account |-> 0,
                                        pending |-> <<>>, tab |-> 0])
             /\ UNCHANGED tabs
     /\ lastOp' = [op |-> "quickSwitchBegin", out |-> index]
     /\ UNCHANGED <<local, popupVars, nextUuid, now, raceVars, decryptVars,
                    activeSessions, detections, session, pages>>

\* chrome.storage.session.set({ pendingSignIn }) settles and the handler
\* opens the sign-in page of the account
OpenSetPending(k) ==
  /\ opens[k].pc = "set"
  /\ session' = opens[k].pending
  /\ tabs' = [tabs EXCEPT ![NewTab] =
                [open |-> TRUE, closed |-> FALSE,
                 url |-> SignInUrl(getAccount(local, opens[k].account)[1])]]
  /\ opens' = [opens EXCEPT ![k].pc = "lastUsed", ![k].tab = NewTab]
  /\ lastOp' = [op |-> "openSetPending", out |-> k]
  /\ UNCHANGED <<local, popupVars, nextUuid, now, raceVars, decryptVars,
                 activeSessions, detections, pages>>

\* await updateLastUsed(account.id), the end of the handler
OpenUpdateLastUsed(k) ==
  LET result == updateLastUsed(getStorage(local), opens[k].account, now)
  IN /\ opens[k].pc = "lastUsed"
     /\ local' = IF result.writes THEN setStorage(result.data) ELSE local
     /\ opens' = [opens EXCEPT ![k].pc = "done"]
     /\ lastOp' = [op |-> "openUpdateLastUsed", out |-> k]
     /\ UNCHANGED <<popupVars, nextUuid, now, raceVars, decryptVars,
                    activeSessions, tabs, detections, session, pages>>

\* The page of tab t has loaded: init of the login helper calls
\* checkPendingSignIn, which asks for pendingSignIn
PageLoad(t) ==
  /\ tabs[t].open
  /\ Includes(Hostname(tabs[t].url), SIGNIN_HOST)
  /\ pages[t].pc = "none"
  /\ pages' = [pages EXCEPT ![t].pc = "get"]
  /\ lastOp' = [op |-> "pageLoad", out |-> t]
  /\ UNCHANGED <<local, popupVars, nextUuid, now, raceVars, decryptVars,
                 activeSessions, tabs, detections, session, opens>>

\* chrome.storage.session.get('pendingSignIn') settles
PageGet(t) ==
  /\ pages[t].pc = "get"
  /\ pages' = [pages EXCEPT ![t] =
                 IF session = <<>>
                 THEN [pc |-> "done", pending |-> <<>>, filled |-> <<>>]
                 ELSE [pc |-> "remove", pending |-> session,
                       filled |-> <<>>]]
  /\ lastOp' = [op |-> "pageGet", out |-> t]
  /\ UNCHANGED <<local, popupVars, nextUuid, now, raceVars, decryptVars,
                 activeSessions, tabs, detections, session, opens>>

\* chrome.storage.session.remove('pendingSignIn') settles; the record is
\* dropped when it is too old, else the page waits for the form and asks
\* the background for the credentials
PageRemove(t) ==
  /\ pages[t].pc = "remove"
  /\ session' = <<>>
  /\ pages' = [pages EXCEPT ![t].pc =
                 IF now - pages[t].pending[1].timestamp > PENDING_MAX_AGE
                 THEN "done" ELSE "credentials"]
  /\ lastOp' = [op |-> "pageRemove", out |-> t]
  /\ UNCHANGED <<local, popupVars, nextUuid, now, raceVars, decryptVars,
                 activeSessions, tabs, detections, opens>>

\* fillAndSubmitForm(pending.awsAccountId, creds.username, creds.password),
\* called when creds is not null: what the fields of the form then hold
FilledForm(pending, creds) ==
  IF IsSome(creds)
  THEN Some([accountId |-> pending.awsAccountId,
             username |-> creds[1].username,
             password |-> creds[1].password])
  ELSE <<>>

\* The answer to GET_DECRYPTED_CREDENTIALS arrives; fillAndSubmitForm
PageFill(t) ==
  /\ pages[t].pc = "credentials"
  /\ pages' = [pages EXCEPT
                 ![t].pc = "done",
                 ![t].filled =
                   FilledForm(pages[t].pending[1],
                              GetDecryptedCredentials(
                                local, pages[t].pending[1].accountId
                              ).credentials)]
  /\ lastOp' = [op |-> "pageFill", out |-> t]
  /\ UNCHANGED <<local, popupVars, nextUuid, now, raceVars, decryptVars,
                 activeSessions, tabs, detections, session, opens>>

\* Time passes: as long as a record stays fresh, or a millisecond more
Tick(elapsed) ==
  /\ now <= MaxTime + (MaxTicks - 1) * (PENDING_MAX_AGE + 1)
  /\ now' = now + elapsed
  /\ lastOp' = [op |-> "tick", out |-> elapsed]
  /\ UNCHANGED <<local, popupVars, nextUuid, raceVars, decryptVars,
                 browserVars>>

NextSignIn ==
  \/ \E accountId \in {Uuid(1), Uuid(2), Uuid(3)} : OpenConsoleBegin(accountId)
  \/ \E index \in 1..3 : QuickSwitchBegin(index)
  \/ \E k \in 1..Len(opens) : OpenSetPending(k)
  \/ \E k \in 1..Len(opens) : OpenUpdateLastUsed(k)
  \/ \E t \in 1..MaxTabs : PageLoad(t)
  \/ \E t \in 1..MaxTabs : PageGet(t)
  \/ \E t \in 1..MaxTabs : PageRemove(t)
  \/ \E t \in 1..MaxTabs : PageFill(t)
  \/ \E elapsed \in {PENDING_MAX_AGE, PENDING_MAX_AGE + 1} : Tick(elapsed)

SpecSignIn == InitSignIn /\ [][NextSignIn]_vars

\* The pendingSignIn records written so far, one for each write
WrittenBy == {k \in 1..Len(opens) : opens[k].pc \in {"lastUsed", "done"}
                                      /\ opens[k].pending # <<>>}

\* The page loads whose read of pendingSignIn returned the record
ObtainedBy(record) == {t \in 1..MaxTabs : pages[t].pending = record}

\* C28: a pendingSignIn record written by one OPEN_CONSOLE or quick-switch
\* is consumed by at most one sign-in page load: no more page loads obtain
\* a record than opens have written it, also when a page load starts while
\* another is between its read and its remove; the record is removed from
\* session storage before it is used; and a record older than 30 seconds
\* is removed without anything being filled.
C28_PendingSignInConsumedOnce ==
  /\ [](\A k \in WrittenBy :
          Cardinality(ObtainedBy(opens[k].pending))
            <= Cardinality({j \in WrittenBy :
                              opens[j].pending = opens[k].pending}))
  /\ [][\A t \in 1..MaxTabs :
          /\ (pages[t].pc = "remove" /\ pages'[t].pc # "remove")
               => /\ session' = <<>>
                  /\ now - pages[t].pending[1].timestamp > PENDING_MAX_AGE
                       => pages'[t].pc = "done" /\ pages'[t].filled = <<>>
          /\ pages'[t].filled # pages[t].filled
               => pages[t].pc = "credentials"]_vars

\* The handler whose chrome.tabs.create opened tab t
OpenedBy(t) == CHOOSE k \in 1..Len(opens) : opens[k].tab = t

\* What the sign-in form should hold for a profile: its account id, its
\* user name and its password
FormOf(accountId) ==
  LET account == getAccount(local, accountId)[1]
      creds == GetDecryptedCredentials(local, accountId).credentials[1]
  IN [accountId |-> account.accountId, username |-> creds.username,
      password |-> creds.password]

\* C29: what is filled into a sign-in page belongs to the account whose
\* OPEN_CONSOLE or quick-switch opened that page: for every interleaving of
\* two opens for different accounts and of the loads of their pages, the
\* account id, user name and password filled into a page are those of the
\* account the page was opened for.
C29_FilledForTheAccountThatOpenedThePage ==
  \A t \in 1..MaxTabs :
    pages[t].filled # <<>>
      => pages[t].filled[1] = FormOf(opens[OpenedBy(t)].account)

====
